---- MODULE Spec2Model ----
(***************************************************************************)
(* A model of the JMAP batch engine of jmap-python: request parsing        *)
(* (JMapRequest.from_json / parse_methods), the Executor's per-call loop   *)
(* with back-reference resolution, and the base module's argument          *)
(* validation and dispatch to its handlers.                                *)
(*                                                                         *)
(* JSON values are modelled as records of a fixed shape so that every      *)
(* value of the state is comparable with every other.  A Python dict is a  *)
(* sequence of <<key, value>> pairs with distinct keys, in insertion       *)
(* order.  An argument key is [h |-> number of leading '#', n |-> rest].   *)
(***************************************************************************)
EXTENDS Integers, Sequences, FiniteSets, TLC

\* The largest number of entries of a batch.
MaxCalls == 2

\* The largest number of batches one Executor executes in succession.
MaxBatches == 2

(***************************************************************************)
(* Values.                                                                 *)
(***************************************************************************)

\* A JSON pointer, as the list of its reference tokens: "/accountId".
PtrAccountId == <<"accountId">>
\* A pointer that names the internal (snake_case) field: "/account_id".
PtrSnake == <<"account_id">>

\* A JSON value inside an args object.  k: "str" a string, "int" a number,
\* "ref" an object {resultOf, name, path}, "badref" an object that lacks
\* "path", "none" no value.
Val(k, s, result_of, name, path) ==
    [k |-> k, s |-> s, result_of |-> result_of, name |-> name, path |-> path]

Str(s) == Val("str", s, "", "", <<>>)
Ref(c, n, p) == Val("ref", "", c, n, p)
BadRef(c, n) == Val("badref", "", c, n, <<>>)
NoVal == Val("none", "", "", "", <<>>)

\* An argument key: h leading '#' characters followed by n.
Key(h, n) == [h |-> h, n |-> n]

\* The args member of a call: a dict (isdict) of items, or any other JSON
\* value (a list, a string, null), which carries no items.
Args(isdict, items) == [isdict |-> isdict, items |-> items]
NonDictArgs == Args(FALSE, <<>>)
EmptyArgs == Args(TRUE, <<>>)

(***************************************************************************)
(* Python dict operations on a sequence of <<key, value>> pairs.           *)
(***************************************************************************)
DictKeys(d) == [j \in 1..Len(d) |-> d[j][1]]

DictHas(d, key) == \E j \in 1..Len(d) : d[j][1] = key

DictGet(d, key) == d[CHOOSE j \in 1..Len(d) : d[j][1] = key][2]

\* d[key] = v: an existing key keeps its position, a new key is appended.
DictSet(d, key, v) ==
    IF DictHas(d, key)
    THEN [j \in 1..Len(d) |-> IF d[j][1] = key THEN <<key, v>> ELSE d[j]]
    ELSE Append(d, <<key, v>>)

\* del d[key]
DictDel(d, key) == SelectSeq(d, LAMBDA kv : kv[1] # key)


\* The text of an argument key.
RECURSIVE KeyText(_)
KeyText(key) ==
    IF key.h = 0 THEN key.n ELSE "#" \o KeyText(Key(key.h - 1, key.n))

(***************************************************************************)
(* Errors (protocol/errors.py).                                            *)
(***************************************************************************)
TypeUnknownMethod == "unknownMethod"
TypeInvalidArguments == "invalidArguments"
TypeInvalidResultReference == "invalidResultReference"
TypeNotRequest == "urn:ietf:params:jmap:error:notRequest"
TypeUnsupportedFilter == "unsupportedFilter"
TypeCannotCalculateChanges == "cannotCalculateChanges"

\* The subclasses of JMapMethodError and their typename.
MethodErrorClasses ==
    {"JMapUnknownMethod", "JMapInvalidArguments", "JMapUnsupportedFilter",
     "JMapInvalidResultReference", "JmapCannotCalculateChanges"}

TypenameOf(class) ==
    CASE class = "JMapUnknownMethod" -> TypeUnknownMethod
      [] class = "JMapInvalidArguments" -> TypeInvalidArguments
      [] class = "JMapUnsupportedFilter" -> TypeUnsupportedFilter
      [] class = "JMapInvalidResultReference" -> TypeInvalidResultReference
      [] class = "JmapCannotCalculateChanges" -> TypeCannotCalculateChanges

\* The description member is always emitted.
MethodErrorToJson_AlwaysDescription(error_typename, description) ==
    [type |-> error_typename,
     has_description |-> TRUE,
     description |-> description]

\* JMapMethodError.to_json: the description member is present only when the
\* description is truthy.  A description is a sequence of message parts.
MethodErrorToJson(typename, description) ==
    [type |-> typename,
     has_description |-> description # <<>>,
     description |-> description]

NoErr == [type |-> "", has_description |-> FALSE, description |-> <<>>]

\* JMapNotRequest: typename and statuscode.
NotRequestTypename == "notRequest"
StatusNotRequest == 400

\* The detail of a JMapRequestError constructed without an argument:
\* __init__ assigns self.detail = None, which hides the class attribute.
NoDetail == <<>>

\* JMapRequestError.to_json.  A detail is a sequence of message parts;
\* detail_is_null tells that the member is null.
RequestErrorToJson(typename, statuscode, error_detail) ==
    [type |-> "urn:ietf:params:jmap:error:" \o typename,
     status |-> statuscode,
     detail_is_null |-> error_detail = NoDetail,
     detail |-> error_detail]

(***************************************************************************)
(* Response data: what Executor.execute records for a call.                *)
(*   t = "record": a MailboxGetResponse instance (has to_client);          *)
(*   t = "raw":    the raw args returned by Core/echo (a dict or other);   *)
(*   t = "error":  the dict returned by JMapMethodError.to_json.           *)
(***************************************************************************)
ResponseData(t, account_id, raw, err) ==
    [t |-> t, account_id |-> account_id, raw |-> raw, err |-> err]

MailboxGetResponse(account_id) == ResponseData("record", account_id, NonDictArgs, NoErr)
RawResult(args) == ResponseData("raw", NoVal, args, NoErr)
ErrorData(err) == ResponseData("error", NoVal, NonDictArgs, err)
NoResponse == ResponseData("none", NoVal, NonDictArgs, NoErr)

\* Only model instances carry the marshal helpers; a dict has no to_client.
HasToClient(response) == response.t = "record"

\* Model.to_client of a MailboxGetResponse: the set fields under their
\* camelCase keys.
to_client(response) ==
    << <<"accountId", response.account_id>>,
       <<"state", Str("state")>>,
       <<"notFound", Val("list", "", "", "", <<>>)>>,
       <<"list", Val("list", "mailboxes", "", "", <<>>)>> >>

\* resolve_pointer over a flat document: a one-token pointer names a member.
PointerResolves(doc, path) == Len(path) = 1 /\ DictHas(doc, path[1])
resolve_pointer(doc, path) == DictGet(doc, path[1])

\* A schema whose path member is not required.
IsResultReference_PathOptional(v) == v.k \in {"ref", "badref"}

\* ResultReference.from_client: the value must be an object with exactly the
\* string members resultOf, name and path.
IsResultReference(v) == v.k = "ref"

(***************************************************************************)
(* resolve_reference (protocol/executor.py).  db maps the client ids that  *)
(* have an entry to a dict response name -> response data.                 *)
(* The outcome is [kind, value, description]:                              *)
(*   "value": the resolved value; "JMapInvalidResultReference": raised     *)
(*   with the description; "AttributeError": response.to_client() on a     *)
(*   response that is a plain dict.                                        *)
(***************************************************************************)
Outcome(kind, value, description) ==
    [kind |-> kind, value |-> value, description |-> description]

\* db[ref.result_of] on a plain dict, without the membership test.
resolve_reference_KeyError(ref, db) ==
    IF ref.result_of \notin DOMAIN db
    THEN Outcome("KeyError", NoVal, <<ref.result_of>>)
    ELSE LET responses == db[ref.result_of] IN
         IF ~DictHas(responses, ref.name)
         THEN Outcome("JMapInvalidResultReference", NoVal,
                      <<"Previous method call with id", ref.result_of,
                        "has no response named", ref.name,
                        "possible names are:">> \o DictKeys(responses))
         ELSE LET response == DictGet(responses, ref.name) IN
              IF ~HasToClient(response)
              THEN Outcome("AttributeError", NoVal, <<>>)
              ELSE IF PointerResolves(to_client(response), ref.path)
                   THEN Outcome("value",
                                resolve_pointer(to_client(response), ref.path), <<>>)
                   ELSE Outcome("JMapInvalidResultReference", NoVal,
                                <<"JsonPointerException">> \o ref.path)

\* The message joins db.keys(), the client ids, not responses.keys().
resolve_reference_ListsClientIds(ref, db) ==
    IF ref.result_of \notin DOMAIN db
    THEN Outcome("JMapInvalidResultReference", NoVal,
                 <<"Not found a previous method call with id", ref.result_of>>)
    ELSE LET responses == db[ref.result_of] IN
         IF ~DictHas(responses, ref.name)
         THEN Outcome("JMapInvalidResultReference", NoVal,
                      <<"Previous method call with id", ref.result_of,
                        "has no response named", ref.name,
                        "possible names are:", ref.result_of>>)
         ELSE LET response == DictGet(responses, ref.name) IN
              IF ~HasToClient(response)
              THEN Outcome("AttributeError", NoVal, <<>>)
              ELSE IF PointerResolves(to_client(response), ref.path)
                   THEN Outcome("value",
                                resolve_pointer(to_client(response), ref.path), <<>>)
                   ELSE Outcome("JMapInvalidResultReference", NoVal,
                                <<"JsonPointerException">> \o ref.path)

\* db[ref.result_of] on the defaultdict, without the membership test: an
\* absent client id gives an empty dict of responses.
resolve_reference_Defaulting(ref, db) ==
    LET responses == IF ref.result_of \in DOMAIN db THEN db[ref.result_of] ELSE <<>> IN
    IF ~DictHas(responses, ref.name)
    THEN Outcome("JMapInvalidResultReference", NoVal,
                 <<"Previous method call with id", ref.result_of,
                   "has no response named", ref.name,
                   "possible names are:">> \o DictKeys(responses))
    ELSE LET response == DictGet(responses, ref.name) IN
         IF ~HasToClient(response)
         THEN Outcome("AttributeError", NoVal, <<>>)
         ELSE IF PointerResolves(to_client(response), ref.path)
              THEN Outcome("value",
                           resolve_pointer(to_client(response), ref.path), <<>>)
              ELSE Outcome("JMapInvalidResultReference", NoVal,
                           <<"JsonPointerException">> \o ref.path)

resolve_reference(ref, db) ==
    IF ref.result_of \notin DOMAIN db
    THEN Outcome("JMapInvalidResultReference", NoVal,
                 <<"Not found a previous method call with id", ref.result_of>>)
    ELSE LET responses == db[ref.result_of] IN
         IF ~DictHas(responses, ref.name)
         THEN Outcome("JMapInvalidResultReference", NoVal,
                      <<"Previous method call with id", ref.result_of,
                        "has no response named", ref.name,
                        "possible names are:">> \o DictKeys(responses))
         ELSE LET response == DictGet(responses, ref.name) IN
              IF ~HasToClient(response)
              THEN Outcome("AttributeError", NoVal, <<>>)
              ELSE IF PointerResolves(to_client(response), ref.path)
                   THEN Outcome("value",
                                resolve_pointer(to_client(response), ref.path), <<>>)
                   ELSE Outcome("JMapInvalidResultReference", NoVal,
                                <<"JsonPointerException">> \o ref.path)

(***************************************************************************)
(* The back-reference loop of Executor.execute_method: for each key of the *)
(* snapshot list(args.keys()) that starts with '#', decode the value as a  *)
(* ResultReference, resolve it, store it under the key without its first   *)
(* '#', and delete the '#' key.  The dict is mutated in place, so what was *)
(* substituted before a later key raises stays substituted.                *)
(* Result: [kind, items, description], kind "ok" or the exception raised.  *)
(***************************************************************************)
RefOutcome(kind, items, description) ==
    [kind |-> kind, items |-> items, description |-> description]

\* str(exc) of the ValidationError of ResultReference.from_client.
ReferenceValidationMessage(v) ==
    IF v.k = "badref"
    THEN <<"path", "Missing data for required field.">>
    ELSE <<"_schema", "Invalid input type.">>

\* The loop without "del args[arg_name]".
RECURSIVE ResolveArgs_KeepsHashKey(_, _, _, _)
ResolveArgs_KeepsHashKey(items, keys, j, db) ==
    IF j > Len(keys) THEN RefOutcome("ok", items, <<>>)
    ELSE LET arg_name == keys[j] IN
         IF arg_name.h = 0 THEN ResolveArgs_KeepsHashKey(items, keys, j + 1, db)
         ELSE LET v == DictGet(items, arg_name) IN
              IF ~IsResultReference(v)
              THEN RefOutcome("JMapNotRequest", items, ReferenceValidationMessage(v))
              ELSE LET r == resolve_reference(v, db) IN
                   IF r.kind # "value"
                   THEN RefOutcome(r.kind, items, r.description)
                   ELSE ResolveArgs_KeepsHashKey(
                            DictSet(items, Key(arg_name.h - 1, arg_name.n), r.value),
                            keys, j + 1, db)

RECURSIVE ResolveArgs(_, _, _, _)
ResolveArgs(items, keys, j, db) ==
    IF j > Len(keys) THEN RefOutcome("ok", items, <<>>)
    ELSE LET arg_name == keys[j] IN
         IF arg_name.h = 0 THEN ResolveArgs(items, keys, j + 1, db)
         ELSE LET v == DictGet(items, arg_name) IN
              IF ~IsResultReference(v)
              THEN RefOutcome("JMapNotRequest", items, ReferenceValidationMessage(v))
              ELSE LET r == resolve_reference(v, db) IN
                   IF r.kind # "value"
                   THEN RefOutcome(r.kind, items, r.description)
                   ELSE ResolveArgs(
                            DictDel(DictSet(items, Key(arg_name.h - 1, arg_name.n), r.value),
                                    arg_name),
                            keys, j + 1, db)

(***************************************************************************)
(* Modules.  The Executor is built over CoreModule and MboxModule:         *)
(*   Core/echo    handle_echo, argument type Any, returns its args;        *)
(*   Mailbox/get  MboxModule.handle_mailbox_get, MailboxGetArgs;           *)
(*   Thread/get   EmailModule.handle_thread_get, ThreadGetArgs, raises     *)
(*                NotImplementedError.                                     *)
(***************************************************************************)
available_methods == {"Core/echo", "Mailbox/get", "Thread/get"}

\* The handlers whose declared argument type is typing.Any.
RawMethods == {"Core/echo"}

\* StandardGetArgs, client view: accountId is a required string, ids and
\* properties are optional lists, any other key is unknown.
KnownGetArgsKeys == {Key(0, "accountId"), Key(0, "ids"), Key(0, "properties")}

RECURSIVE UnknownFieldErrors(_, _)
UnknownFieldErrors(items, j) ==
    IF j > Len(items) THEN <<>>
    ELSE (IF items[j][1] \in KnownGetArgsKeys THEN <<>>
          ELSE <<KeyText(items[j][1]), "Unknown field.">>)
         \o UnknownFieldErrors(items, j + 1)

ListFieldErrors(items, n) ==
    IF DictHas(items, Key(0, n)) /\ DictGet(items, Key(0, n)).k \notin {"list", "none"}
    THEN <<n, "Not a valid list.">> ELSE <<>>

\* The messages of the ValidationError of <GetArgs>.from_client(input), empty
\* when the input validates.
ValidationErrors(items) ==
    (IF ~DictHas(items, Key(0, "accountId"))
     THEN <<"accountId", "Missing data for required field.">>
     ELSE IF DictGet(items, Key(0, "accountId")).k # "str"
          THEN <<"accountId", "Not a valid string.">>
          ELSE <<>>)
    \o ListFieldErrors(items, "ids")
    \o ListFieldErrors(items, "properties")
    \o UnknownFieldErrors(items, 1)

\* The handler of a method, applied to the argument object.
\* arg_is_record: the argument is a validated args record (else the raw input).
ModOutcome(kind, result, description, handled, validated) ==
    [kind |-> kind, result |-> result, description |-> description,
     handled |-> handled, validated |-> validated]

Handler(method_name, input, arg_is_record) ==
    CASE method_name = "Core/echo" ->
           ModOutcome("return", RawResult(input), <<>>, TRUE, arg_is_record)
      [] method_name = "Mailbox/get" ->
           IF arg_is_record
           THEN ModOutcome("return",
                           MailboxGetResponse(DictGet(input.items, Key(0, "accountId"))),
                           <<>>, TRUE, TRUE)
           \* args.account_id on the raw input
           ELSE ModOutcome("AttributeError", NoResponse, <<>>, TRUE, FALSE)
      [] OTHER ->
           ModOutcome("NotImplementedError", NoResponse, <<>>, TRUE, arg_is_record)

\* JmapBaseModule.execute
ModuleExecute(method_name, input) ==
    IF method_name \in RawMethods
    THEN Handler(method_name, input, FALSE)
    ELSE IF input.isdict
         THEN IF ValidationErrors(input.items) # <<>>
              THEN ModOutcome("JMapInvalidArguments", NoResponse,
                              ValidationErrors(input.items), FALSE, FALSE)
              ELSE Handler(method_name, input, TRUE)
         ELSE Handler(method_name, input, FALSE)

\* Executor.available_methods: the method names the Executor's modules
\* registered, set by __init__ and read by execute_method.
VARIABLE self_available_methods

(***************************************************************************)
(* Executor.execute_method.  The outcome says how the call ended:          *)
(*   kind "return": the module's result; "JMapMethodError": a method-level *)
(*   error of the given typename and description; anything else is an      *)
(*   exception that Executor.execute does not catch.                       *)
(* args is the call's argument object as the method leaves it; executed    *)
(* tells whether module.execute was entered, handled whether the handler   *)
(* was, validated whether the handler got a validated args record.         *)
(***************************************************************************)
ExecOutcome(kind, args, result, typename, description, executed, handled, validated) ==
    [kind |-> kind, args |-> args, result |-> result, typename |-> typename,
     description |-> description, executed |-> executed, handled |-> handled,
     validated |-> validated]

Dispatch(name, args) ==
    LET m == ModuleExecute(name, args) IN
    CASE m.kind = "return" ->
           ExecOutcome("return", args, m.result, "", <<>>, TRUE, m.handled, m.validated)
      [] m.kind = "JMapInvalidArguments" ->
           ExecOutcome("JMapMethodError", args, NoResponse, TypeInvalidArguments,
                       m.description, TRUE, m.handled, m.validated)
      [] m.kind = "NotImplementedError" ->
           ExecOutcome("JMapMethodError", args, NoResponse, TypeUnknownMethod,
                       <<"This method is not implemented.">>, TRUE, m.handled, m.validated)
      [] OTHER ->
           ExecOutcome(m.kind, args, NoResponse, "", <<>>, TRUE, m.handled, m.validated)

\* module.execute is called although a back-reference did not resolve.
execute_method_DispatchesAnyway(method_call, db) ==
    IF method_call.name \notin self_available_methods
    THEN ExecOutcome("MethodNotFound", method_call.args, NoResponse, "",
                     <<method_call.name>>, FALSE, FALSE, FALSE)
    ELSE IF ~method_call.args.isdict
         THEN Dispatch(method_call.name, method_call.args)
         ELSE LET r == ResolveArgs(method_call.args.items,
                                   DictKeys(method_call.args.items), 1, db)
                  args == Args(TRUE, r.items)
              IN  Dispatch(method_call.name, args)

execute_method(method_call, db) ==
    IF method_call.name \notin self_available_methods
    THEN ExecOutcome("MethodNotFound", method_call.args, NoResponse, "",
                     <<method_call.name>>, FALSE, FALSE, FALSE)
    ELSE IF ~method_call.args.isdict
         THEN Dispatch(method_call.name, method_call.args)
         ELSE LET r == ResolveArgs(method_call.args.items,
                                   DictKeys(method_call.args.items), 1, db)
                  args == Args(TRUE, r.items)
              IN  CASE r.kind = "ok" -> Dispatch(method_call.name, args)
                    [] r.kind = "JMapInvalidResultReference" ->
                         ExecOutcome("JMapMethodError", args, NoResponse,
                                     TypeInvalidResultReference, r.description,
                                     FALSE, FALSE, FALSE)
                    [] OTHER ->
                         ExecOutcome(r.kind, args, NoResponse, "", r.description,
                                     FALSE, FALSE, FALSE)

(***************************************************************************)
(* Request parsing (protocol/models.py).                                   *)
(* The request body is [kind, has_calls, calls]: kind "list" a bare list   *)
(* of entries, "dict" an object (has_calls: it has a methodCalls member),  *)
(* "scalar" any other JSON value.  An entry is [kind, len, name, args,     *)
(* client_id]: a list of len members, a string of len characters, or a     *)
(* number.                                                                 *)
(***************************************************************************)
Entry(kind, len, name, args, client_id) ==
    [kind |-> kind, len |-> len, name |-> name, args |-> args, client_id |-> client_id]

MethodCall(name, args, client_id) ==
    [name |-> name, args |-> args, client_id |-> client_id]

ParseOutcome(kind, methods) == [kind |-> kind, methods |-> methods]

\* "method_name, args, client_id = call": a number cannot be unpacked
\* (TypeError); a sequence of another length raises ValueError, which
\* parse_methods turns into JMapNotRequest; a list or a string of three
\* members unpacks.
RECURSIVE parse_methods(_, _, _)
parse_methods(calls, j, methods) ==
    IF j > Len(calls) THEN ParseOutcome("ok", methods)
    ELSE LET call == calls[j] IN
         IF call.kind = "int" THEN ParseOutcome("TypeError", <<>>)
         ELSE IF call.len # 3 THEN ParseOutcome("JMapNotRequest", <<>>)
         ELSE parse_methods(calls, j + 1,
                            Append(methods,
                                   MethodCall(call.name, call.args, call.client_id)))

\* JMapRequest.from_json
from_json(d) ==
    CASE d.kind = "list" -> parse_methods(d.calls, 1, <<>>)
      [] d.kind = "dict" ->
           \* data.get('methodCalls') is None when the member is absent
           IF d.has_calls THEN parse_methods(d.calls, 1, <<>>)
           ELSE ParseOutcome("TypeError", <<>>)
      [] OTHER -> ParseOutcome("ValueError", <<>>)

(***************************************************************************)
(* The requests the model is run on.                                       *)
(***************************************************************************)
ClientIds == {"c1", "c2"}

\* Foo/bar is registered by no module.
Methods == {"Core/echo", "Mailbox/get", "Thread/get", "Foo/bar"}

ValidArgs == Args(TRUE, << <<Key(0, "accountId"), Str("acc")>> >>)

PlainArgs == {ValidArgs, EmptyArgs, NonDictArgs}

RefValues ==
    {Ref("c1", n, p) : n \in {"Mailbox/get", "Core/echo", "error"},
                      p \in {PtrAccountId, PtrSnake}}
    \cup {Ref("c2", "Mailbox/get", PtrAccountId),
          BadRef("c1", "Mailbox/get"), Str("c1")}

GoodRef == Ref("c1", "Mailbox/get", PtrAccountId)

RefArgs ==
    {Args(TRUE, << <<Key(1, "accountId"), v>> >>) : v \in RefValues}
    \cup {Args(TRUE, << <<Key(1, "accountId"), GoodRef>>, <<Key(1, "ids"), v>> >>) :
            v \in {Ref("c1", "Mailbox/get", <<"notFound">>),
                   Ref("c1", "Mailbox/get", PtrSnake)}}
    \cup {Args(TRUE, << <<Key(0, "accountId"), Str("other")>>,
                        <<Key(1, "accountId"), GoodRef>> >>),
          Args(TRUE, << <<Key(2, "accountId"), GoodRef>> >>)}

\* Well-formed entries [name, args, client_id].
CallEntries ==
    {Entry("list", 3, m, a, c) : m \in Methods, a \in PlainArgs, c \in ClientIds}
    \cup {Entry("list", 3, m, a, "c2") : m \in {"Mailbox/get", "Foo/bar"}, a \in RefArgs}

\* Entries that are no [name, args, client_id] list: a list of two members,
\* a number, and the string "abc", which unpacks into its three characters.
OddEntries ==
    {Entry("list", 2, "Core/echo", ValidArgs, ""),
     Entry("int", 0, "", NonDictArgs, ""),
     Entry("str", 3, "a", NonDictArgs, "c")}

Entries == CallEntries \cup OddEntries

Batches == UNION {[1..n -> Entries] : n \in 0..MaxCalls}

Body(kind, has_calls, calls) == [kind |-> kind, has_calls |-> has_calls, calls |-> calls]

Requests ==
    {Body(k, TRUE, b) : k \in {"list", "dict"}, b \in Batches}
    \cup {Body("dict", FALSE, <<>>), Body("scalar", FALSE, <<>>)}

(***************************************************************************)
(* The state machine: one batch, from the request body to the response.    *)
(***************************************************************************)
VARIABLES
    data,                    \* the request body
    pc,                      \* "parse", "execute" or "done"
    method_calls,            \* JMapRequest.method_calls
    next_call,               \* the position of the for loop of Executor.execute
    responses_by_client_id,  \* client id -> dict response name -> response data
    method_responses,        \* the entries [name, data, client_id] so far
    raised,                  \* the exception that ended the batch, "" if none
    detail,                  \* the message of that exception
    log,                     \* per executed call: how execute_method ended
    batch,                   \* the number of the batch the Executor is given
    earlier_responses        \* the response entries of the batches before it

exec_vars == <<data, pc, method_calls, next_call, responses_by_client_id,
               method_responses, raised, detail, log, batch, earlier_responses,
               self_available_methods>>

\* The state of one call of a handler wrapped by check_get_perms.
VARIABLES
    auth_backend,            \* the backend given to EmailModule.__init__
    wrapped_args,            \* the args record the wrapped handler is called with
    can_read_calls,          \* the calls of auth_backend.can_read so far
    handler_calls,           \* how often the real handler was invoked
    wrapped_result           \* "" while pending, then "return" or the exception

perm_vars == <<auth_backend, wrapped_args, can_read_calls, handler_calls,
               wrapped_result>>

\* The state of one "except JMapMethodError as exc" of Executor.execute.
VARIABLES
    exc,                     \* the error raised: [class, description, client_id]
    error_response           \* the entry recorded for it, <<>> before

err_vars == <<exc, error_response>>

\* The state of a model record being built, marshalled and unmarshalled.
VARIABLES
    record,                  \* the model instance in hand, None before there is one
    marshal_op               \* the last operation on it and what it gave

marshal_vars == <<record, marshal_op>>

vars == <<exec_vars, perm_vars, err_vars, marshal_vars>>

\* What a step of the Executor leaves alone.
non_exec_vars == <<perm_vars, err_vars, marshal_vars>>

\* What a step of the wrapped handler leaves alone.
non_perm_vars == <<exec_vars, err_vars, marshal_vars>>

\* What the recording of a method error leaves alone.
non_err_vars == <<exec_vars, perm_vars, marshal_vars>>

\* What an operation on a model record leaves alone.
non_marshal_vars == <<exec_vars, perm_vars, err_vars>>

\* No model record is in hand.
IdleMarshal ==
    /\ record = [t |-> "none", a |-> "", l |-> <<>>]
    /\ marshal_op = [op |-> "", cls |-> "", use_server_fields |-> FALSE,
                     input |-> [t |-> "none", a |-> "", l |-> <<>>],
                     source |-> [t |-> "none", a |-> "", l |-> <<>>],
                     output |-> [t |-> "none", a |-> "", l |-> <<>>],
                     outcome |-> [exc |-> "", messages |-> <<>>,
                                  value |-> [t |-> "none", a |-> "", l |-> <<>>]]]

\* No method error is being recorded.
IdleErrors ==
    /\ exc = [class |-> "", description |-> <<>>, client_id |-> ""]
    /\ error_response = <<>>

\* No wrapped handler is being called.
IdlePerms ==
    /\ auth_backend = [configured |-> FALSE, readable |-> {}]
    /\ wrapped_args = [account_id |-> "", ids |-> [isnone |-> TRUE, list |-> <<>>]]
    /\ can_read_calls = <<>>
    /\ handler_calls = 0
    /\ wrapped_result = ""

NoResponses == [c \in {} |-> <<>>]

\* The Executor as constructed, before the request body is parsed.
InitExecutor ==
    /\ pc = "parse"
    /\ method_calls = <<>>
    /\ next_call = 1
    /\ responses_by_client_id = NoResponses
    /\ method_responses = <<>>
    /\ raised = ""
    /\ detail = <<>>
    /\ log = <<>>
    /\ batch = 1
    /\ earlier_responses = <<>>
    /\ self_available_methods = available_methods

Init ==
    /\ data \in Requests
    /\ InitExecutor
    /\ IdlePerms
    /\ IdleErrors
    /\ IdleMarshal

\* JMapRequest.from_json(request_json)
FromJson ==
    /\ pc = "parse"
    /\ LET p == from_json(data) IN
         IF p.kind = "ok"
         THEN /\ method_calls' = p.methods
              /\ pc' = "enter"
              /\ UNCHANGED raised
              /\ UNCHANGED detail
         ELSE /\ raised' = p.kind
              \* parse_methods raises JMapNotRequest()
              /\ detail' = NoDetail
              /\ pc' = "done"
              /\ UNCHANGED method_calls
    /\ UNCHANGED <<data, next_call, responses_by_client_id, method_responses,
                   log, batch, earlier_responses, self_available_methods>>
    /\ UNCHANGED non_exec_vars

\* Entering execute without a new response table: the table of the batch
\* before stays in use.
EnterExecute_KeepsTable ==
    /\ pc = "enter"
    /\ method_responses' = <<>>
    /\ next_call' = 1
    /\ pc' = "execute"
    /\ UNCHANGED <<data, method_calls, responses_by_client_id, raised, detail, log,
                   batch, earlier_responses, self_available_methods>>
    /\ UNCHANGED non_exec_vars

\* Executor.execute up to its loop: method_responses = [] and
\* responses_by_client_id = defaultdict(lambda: {}).
EnterExecute ==
    /\ pc = "enter"
    /\ method_responses' = <<>>
    /\ responses_by_client_id' = NoResponses
    /\ next_call' = 1
    /\ pc' = "execute"
    /\ UNCHANGED <<data, method_calls, raised, detail, log, batch,
                   earlier_responses, self_available_methods>>
    /\ UNCHANGED non_exec_vars

\* setdefault in place of the assignment: a response name already recorded
\* under the client id keeps its first response.
Record_KeepsFirst(db, client_id, response_name, response_data) ==
    [c \in DOMAIN db \cup {client_id} |->
        IF c = client_id
        THEN IF c \in DOMAIN db /\ DictHas(db[c], response_name)
             THEN db[c]
             ELSE DictSet(IF c \in DOMAIN db THEN db[c] ELSE <<>>,
                          response_name, response_data)
        ELSE db[c]]

\* responses_by_client_id[client_id][response_name] = response_data, on a
\* defaultdict of dicts.
Record(db, client_id, response_name, response_data) ==
    [c \in DOMAIN db \cup {client_id} |->
        IF c = client_id
        THEN DictSet(IF c \in DOMAIN db THEN db[c] ELSE <<>>,
                     response_name, response_data)
        ELSE db[c]]

ResponseEntry(name, rdata, client_id) ==
    [name |-> name, data |-> rdata, client_id |-> client_id]

\* method_responses.append(entry)
Appended_AtFront(responses, entry) == <<entry>> \o responses

Appended(responses, entry) == Append(responses, entry)

\* One iteration of the loop of Executor.execute.
ExecuteCall ==
    /\ pc = "execute"
    /\ next_call <= Len(method_calls)
    /\ LET method_call == method_calls[next_call]
           o == execute_method(method_call, responses_by_client_id)
           response_name == IF o.kind = "return" THEN method_call.name ELSE "error"
           response_data ==
               IF o.kind = "return" THEN o.result
               ELSE ErrorData(MethodErrorToJson(o.typename, o.description))
       IN  /\ method_calls' = [method_calls EXCEPT ![next_call].args = o.args]
           /\ log' = Append(log, o)
           /\ IF o.kind \in {"return", "JMapMethodError"}
              THEN /\ responses_by_client_id' =
                          Record(responses_by_client_id, method_call.client_id,
                                 response_name, response_data)
                   /\ method_responses' =
                          Appended(method_responses,
                                 ResponseEntry(response_name, response_data,
                                               method_call.client_id))
                   /\ next_call' = next_call + 1
                   /\ UNCHANGED <<pc, raised, detail>>
              ELSE /\ raised' = o.kind
                   /\ detail' = o.description
                   /\ pc' = "done"
                   /\ UNCHANGED <<responses_by_client_id, method_responses, next_call>>
    /\ UNCHANGED <<data, batch, earlier_responses, self_available_methods>>
    /\ UNCHANGED non_exec_vars

\* return JMapResponse(method_responses=method_responses)
Return ==
    /\ pc = "execute"
    /\ next_call > Len(method_calls)
    /\ pc' = "done"
    /\ UNCHANGED <<data, method_calls, next_call, responses_by_client_id,
                   method_responses, raised, detail, log, batch,
                   earlier_responses, self_available_methods>>
    /\ UNCHANGED non_exec_vars

Next == FromJson \/ EnterExecute \/ ExecuteCall \/ Return

Spec == Init /\ [][Next]_vars

(***************************************************************************)
(* One Executor instance given several batches in succession.  What        *)
(* execute left in its local variables when it ended stays in the state    *)
(* until the next call of execute assigns them again.                      *)
(***************************************************************************)
BatchEntries ==
    {Entry("list", 3, "Mailbox/get", ValidArgs, "c1"),
     Entry("list", 3, "Mailbox/get", EmptyArgs, "c1"),
     Entry("list", 3, "Mailbox/get",
           Args(TRUE, << <<Key(1, "accountId"), GoodRef>> >>), "c2")}

BatchRequests ==
    {Body("list", TRUE, b) : b \in UNION {[1..n -> BatchEntries] : n \in 1..MaxCalls}}

InitBatches ==
    /\ data \in BatchRequests
    /\ InitExecutor
    /\ IdlePerms
    /\ IdleErrors
    /\ IdleMarshal

\* The batch has ended (returned or raised); the same Executor is given the
\* next request.
NextRequest ==
    /\ pc = "done"
    /\ batch < MaxBatches
    /\ batch' = batch + 1
    /\ earlier_responses' = earlier_responses \o method_responses
    /\ data' \in BatchRequests
    /\ pc' = "parse"
    /\ raised' = ""
    /\ detail' = <<>>
    /\ log' = <<>>
    /\ UNCHANGED <<method_calls, next_call, responses_by_client_id,
                   method_responses, self_available_methods>>
    /\ UNCHANGED non_exec_vars

NextBatches == FromJson \/ EnterExecute \/ ExecuteCall \/ Return \/ NextRequest

SpecBatches == InitBatches /\ [][NextBatches]_vars

(***************************************************************************)
(* Batches whose calls share a client id: two Mailbox/get calls under c1   *)
(* (for different accounts, or failing validation) and a call under c2     *)
(* that refers to the Mailbox/get response of c1.                          *)
(***************************************************************************)
MaxSharedCalls == 3

SharedEntries ==
    {Entry("list", 3, "Mailbox/get", ValidArgs, "c1"),
     Entry("list", 3, "Mailbox/get",
           Args(TRUE, << <<Key(0, "accountId"), Str("other")>> >>), "c1"),
     Entry("list", 3, "Mailbox/get", EmptyArgs, "c1"),
     Entry("list", 3, "Mailbox/get",
           Args(TRUE, << <<Key(1, "accountId"), GoodRef>> >>), "c2")}

SharedRequests ==
    {Body("list", TRUE, b) : b \in UNION {[1..n -> SharedEntries] : n \in 1..MaxSharedCalls}}

InitShared ==
    /\ data \in SharedRequests
    /\ InitExecutor
    /\ IdlePerms
    /\ IdleErrors
    /\ IdleMarshal

NextShared == FromJson \/ EnterExecute \/ ExecuteCall \/ Return

SpecShared == InitShared /\ [][NextShared]_vars

\* No request is being handled.
IdleExecutor ==
    /\ data = Body("list", TRUE, <<>>)
    /\ pc = "idle"
    /\ method_calls = <<>>
    /\ next_call = 1
    /\ responses_by_client_id = NoResponses
    /\ method_responses = <<>>
    /\ raised = ""
    /\ detail = <<>>
    /\ log = <<>>
    /\ batch = 1
    /\ earlier_responses = <<>>
    /\ self_available_methods = available_methods

(***************************************************************************)
(* The permission hook (protocol/mail.py): EmailModule registers           *)
(* Mailbox/get as check_get_perms(self, auth_backend, 'Mailbox',           *)
(* self.handle_mailbox_get).                                               *)
(* An auth backend is [configured, readable]: configured is FALSE for      *)
(* auth_backend=None; readable is the set of <<objecttype, objectid>> for  *)
(* which its can_read answers True.  The ids of the args are None or a     *)
(* list, and are handed to can_read as one value.                          *)
(***************************************************************************)
IdList(isnone, list) == [isnone |-> isnone, list |-> list]

AccountIds == {"acc", "other"}

IdLists == {IdList(TRUE, <<>>), IdList(FALSE, <<"m1">>), IdList(FALSE, <<"m1", "m2">>)}

Readables == {<<"Account", a>> : a \in AccountIds} \cup {<<"Mailbox", i>> : i \in IdLists}

\* AccountBackend: can_read denies by default.
AccountBackend == [configured |-> TRUE, readable |-> {}]

\* SingleUser: permission is always granted.
SingleUser == [configured |-> TRUE, readable |-> Readables]

\* No backend, AccountBackend, SingleUser, and the subclasses of
\* AccountBackend whose can_read grants some of the objects.
AuthBackends ==
    {[configured |-> FALSE, readable |-> {}]}
    \cup {[configured |-> TRUE, readable |-> r] : r \in SUBSET Readables}

can_read(backend, objecttype, objectid) == <<objecttype, objectid>> \in backend.readable

CanReadCall(objecttype, objectid, answer) ==
    [objecttype |-> objecttype, objectid |-> objectid, answer |-> answer]

InitPerms ==
    /\ IdleExecutor
    /\ IdleErrors
    /\ IdleMarshal
    /\ auth_backend \in AuthBackends
    /\ wrapped_args \in [account_id : AccountIds, ids : IdLists]
    /\ can_read_calls = <<>>
    /\ handler_calls = 0
    /\ wrapped_result = ""

\* A hook that asks only about the account.
wrapped_AccountOnly ==
    /\ wrapped_result = ""
    /\ LET account == can_read(auth_backend, "Account", wrapped_args.account_id)
           asked == <<CanReadCall("Account", wrapped_args.account_id, account)>>
       IN  IF auth_backend.configured /\ ~account
           THEN /\ can_read_calls' = asked
                /\ wrapped_result' = "ValueError"
                /\ UNCHANGED handler_calls
           ELSE /\ can_read_calls' = IF auth_backend.configured THEN asked ELSE <<>>
                /\ handler_calls' = handler_calls + 1
                /\ wrapped_result' = "return"
    /\ UNCHANGED <<auth_backend, wrapped_args>>
    /\ UNCHANGED non_perm_vars

\* wrapped(self, context, args) of check_get_perms, with the handler
\* MboxModule.handle_mailbox_get.
wrapped ==
    /\ wrapped_result = ""
    /\ LET account == can_read(auth_backend, "Account", wrapped_args.account_id)
           mailbox == can_read(auth_backend, "Mailbox", wrapped_args.ids)
           asked_account == <<CanReadCall("Account", wrapped_args.account_id, account)>>
           asked_both == Append(asked_account,
                                CanReadCall("Mailbox", wrapped_args.ids, mailbox))
       IN  IF ~auth_backend.configured
           THEN /\ handler_calls' = handler_calls + 1
                /\ wrapped_result' = "return"
                /\ UNCHANGED can_read_calls
           ELSE IF ~account
                THEN /\ can_read_calls' = asked_account
                     /\ wrapped_result' = "ValueError"
                     /\ UNCHANGED handler_calls
                ELSE IF ~mailbox
                     THEN /\ can_read_calls' = asked_both
                          /\ wrapped_result' = "ValueError"
                          /\ UNCHANGED handler_calls
                     ELSE /\ can_read_calls' = asked_both
                          /\ handler_calls' = handler_calls + 1
                          /\ wrapped_result' = "return"
    /\ UNCHANGED <<auth_backend, wrapped_args>>
    /\ UNCHANGED non_perm_vars

NextPerms == wrapped

SpecPerms == InitPerms /\ [][NextPerms]_vars

(***************************************************************************)
(* The recording of a method-level error: a JMapMethodError that           *)
(* execute_method or a module's handler raised is caught by                *)
(* Executor.execute and its to_json() becomes the call's "error" response. *)
(* A description is a sequence of at most MaxDescription message parts;    *)
(* the empty sequence is an error raised without a description.            *)
(***************************************************************************)
MaxDescription == 2

MessageParts == {"This method is not implemented.", "accountId", "Unknown field."}

Descriptions == UNION {[1..n -> MessageParts] : n \in 0..MaxDescription}

InitErrors ==
    /\ IdleExecutor
    /\ IdlePerms
    /\ IdleMarshal
    /\ exc \in [class : MethodErrorClasses, description : Descriptions,
                 client_id : ClientIds]
    /\ error_response = <<>>

\* except JMapMethodError as exc: response_name = 'error',
\* response_data = exc.to_json(); the entry appended to method_responses.
RecordError ==
    /\ error_response = <<>>
    /\ exc.class \in MethodErrorClasses
    /\ error_response' =
          <<ResponseEntry("error",
                          ErrorData(MethodErrorToJson(TypenameOf(exc.class),
                                                      exc.description)),
                          exc.client_id)>>
    /\ UNCHANGED exc
    /\ UNCHANGED non_err_vars

NextErrors == RecordError

SpecErrors == InitErrors /\ [][NextErrors]_vars

(***************************************************************************)
(* The marshaling system (models/marshal.py, models/wrap.py).              *)
(*                                                                         *)
(* A value, in Python or in JSON, is [t, a, l]:                            *)
(*   t = "none"  None / null;                                              *)
(*   t = "bool", "int", "str": an atom, its text in a;                     *)
(*   t = "list": the elements in l;                                        *)
(*   t = "dict": a dict / JSON object, l its <<key, value>> pairs;         *)
(*   t = "inst": an instance of the model class a, l the <<name, value>>   *)
(*               pairs of instance.__dict__.                               *)
(* An attribute name is the sequence of its words ("is_blocked" is         *)
(* <<"is", "blocked">>, "from_" is <<"from", "">>).  A key of a JSON       *)
(* object is [w, snake]: its words, and whether they are joined by '_'     *)
(* (else camelCase); a key of one word is the same text either way.        *)
(***************************************************************************)
PyVal(t, a, l) == [t |-> t, a |-> a, l |-> l]

PyNone == PyVal("none", "", <<>>)
\* True and False are written "True" and "False".
PyBool(a) == PyVal("bool", a, <<>>)
PyInt(a) == PyVal("int", a, <<>>)
PyStr(a) == PyVal("str", a, <<>>)
PyList(l) == PyVal("list", "list", l)
PyDict(l) == PyVal("dict", "dict", l)
Instance(cls, l) == PyVal("inst", cls, l)

\* The strings int() accepts.
NumericTexts == {"3", "5"}

WireKey(w, snake) == [w |-> w, snake |-> snake /\ Len(w) > 1]

\* The text of an attribute name used as a key: "in_mailbox".
NameKey(name) == WireKey(name, TRUE)

\* to_camel_case: the first word, then the others capitalized; an empty
\* last word (the '_' of "from_") adds nothing.
to_camel_case(name) == WireKey(SelectSeq(name, LAMBDA x : x # ""), FALSE)

(***************************************************************************)
(* Type annotations: [k, n, of].  Optional[T] is Union[T, None].           *)
(***************************************************************************)
TypeAnn(k, n, of) == [k |-> k, n |-> n, of |-> of]

NoneT == TypeAnn("NoneType", "", <<>>)
StrT == TypeAnn("str", "", <<>>)
IntT == TypeAnn("int", "", <<>>)
BoolT == TypeAnn("bool", "", <<>>)
ModelT(cls) == TypeAnn("model", cls, <<>>)
EnumT(enum) == TypeAnn("enum", enum, <<>>)
ListT(item) == TypeAnn("List", "", <<item>>)
UnionT(types) == TypeAnn("Union", "", types)
OptionalT(type) == UnionT(<<type, NoneT>>)

(***************************************************************************)
(* A marshmallow field: [fc, allow_none, many, nested, item, union, enum,  *)
(* error, unmarshal_func, load_only].                                      *)
(*   fc: the field class; nested: the model class of a CustomNested;       *)
(*   item: the element field of a List (a sequence of one field);          *)
(*   union: the <<type, field>> pairs of a PolyField;                      *)
(*   enum, error: the enum and the error template of an EnumField;         *)
(*   unmarshal_func: the helper of a CustomUnmarshalField.                 *)
(***************************************************************************)
MField(fc, allow_none, many, nested, item, union) ==
    [fc |-> fc, allow_none |-> allow_none, many |-> many, nested |-> nested,
     item |-> item, union |-> union, enum |-> "", error |-> "",
     unmarshal_func |-> "", load_only |-> FALSE]

(***************************************************************************)
(* Enums.  A member is [t |-> "enum", a |-> "<Enum>.<name>"]; the table    *)
(* gives each member's name and value, in definition order.                *)
(***************************************************************************)
EnumMember(enum, name) == PyVal("enum", enum \o "." \o name, <<>>)

\* Color of test_enum and HeaderFieldForm: <<name, value>>.
EnumMembers(enum) ==
    CASE enum = "Color" -> << <<"red", PyStr("red")>>, <<"green", PyStr("green")>> >>
      [] enum = "HeaderFieldForm" ->
           << <<"raw", PyStr("Raw")>>, <<"text", PyStr("Text")>>,
              <<"addresses", PyStr("Addresses")>>,
              <<"grouped_addresses", PyStr("GroupedAddresses")>>,
              <<"message_ids", PyStr("MessageIds")>>, <<"date", PyStr("Date")>>,
              <<"urls", PyStr("URLs")>> >>

Enums == {"Color", "HeaderFieldForm"}

\* enum(value): the member whose value equals the value, or ValueError
\* (no member); a sequence of zero or one member.
EnumByValue(enum, value) ==
    LET members == EnumMembers(enum)
        found == SelectSeq(members, LAMBDA m : m[2].t = value.t /\ m[2].a = value.a)
    IN  [j \in 1..Len(found) |-> EnumMember(enum, found[j][1])]

\* member.value
EnumValue(member) ==
    LET of(enum) == {j \in 1..Len(EnumMembers(enum)) :
                       EnumMember(enum, EnumMembers(enum)[j][1]).a = member.a}
        enum == CHOOSE e \in Enums : of(e) # {}
    IN  EnumMembers(enum)[CHOOSE j \in of(enum) : TRUE][2]

\* get_marshmallow_field_class_from_python_type
FieldFromPythonType(klass) ==
    CASE klass.k = "model" -> MField("CustomNested", FALSE, FALSE, klass.n, <<>>, <<>>)
      [] klass.k = "enum" ->
           [MField("EnumField", FALSE, FALSE, "", <<>>, <<>>) EXCEPT !.enum = klass.n]
      [] klass.k = "str" -> MField("String", FALSE, FALSE, "", <<>>, <<>>)
      [] klass.k = "int" -> MField("Integer", FALSE, FALSE, "", <<>>, <<>>)

\* The members of a Union other than NoneType.
UnionTypes(type) == SelectSeq(type.of, LAMBDA u : u # NoneT)

UnionAllowsNone(type) == \E j \in 1..Len(type.of) : type.of[j] = NoneT

\* get_marshmallow_field_class_from_mypy_annotation, with the field class
\* instantiated.  Optional[T] is the field of T with allow_none; a Union of
\* several types is a PolyField; List[T] is a List of the item field, or,
\* when the item field is nested, the item field with many=True and the
\* item field's other arguments.
RECURSIVE FieldFromAnnotation(_)
FieldFromAnnotation(type) ==
    CASE type.k = "Union" ->
           IF Len(UnionTypes(type)) > 1
           THEN MField("PolyField", UnionAllowsNone(type), FALSE, "", <<>>,
                       [j \in 1..Len(UnionTypes(type)) |->
                           <<UnionTypes(type)[j],
                             FieldFromPythonType(UnionTypes(type)[j])>>])
           ELSE [FieldFromAnnotation(UnionTypes(type)[1])
                    EXCEPT !.allow_none = UnionAllowsNone(type)]
      [] type.k = "List" ->
           LET item == FieldFromAnnotation(type.of[1]) IN
           IF item.fc = "CustomNested"
           THEN [item EXCEPT !.many = TRUE]
           ELSE MField("List", FALSE, FALSE, "", <<item>>, <<>>)
      [] OTHER -> FieldFromPythonType(type)

(***************************************************************************)
(* Model classes.  An attribute is [name, type, has_default, default,      *)
(* server_set, marshal]; server_set makes wrap.attrib pass init=False;     *)
(* marshal names the custom_marshal of metadata['marshal'], "" for none.   *)
(***************************************************************************)
AttrField(name, type, has_default, default, server_set) ==
    [name |-> name, type |-> type, has_default |-> has_default,
     default |-> default, server_set |-> server_set, marshal |-> ""]

Required(name, type) == AttrField(name, type, FALSE, PyNone, FALSE)

\* attrib(metadata={'marshal': custom_marshal(...)})
CustomMarshal(name, type, helper) == [Required(name, type) EXCEPT !.marshal = helper]

get_fields(cls) ==
    CASE cls = "Mailbox" ->
           <<AttrField(<<"role">>, StrT, TRUE, PyStr("inbox"), FALSE),
             AttrField(<<"total", "emails">>, IntT, FALSE, PyNone, TRUE)>>
      [] cls = "Parent" -> <<Required(<<"box">>, ListT(ModelT("Mailbox")))>>
      [] cls = "Named" -> <<Required(<<"id">>, StrT), Required(<<"name">>, StrT)>>
      [] cls = "OptionalInt" -> <<Required(<<"role">>, OptionalT(IntT))>>
      [] cls = "OptionalItem" -> <<Required(<<"names">>, ListT(OptionalT(StrT)))>>
      [] cls = "OptionalList" -> <<Required(<<"names">>, OptionalT(ListT(StrT)))>>
      [] cls = "OptionalBoxes" ->
           <<Required(<<"box">>, ListT(OptionalT(ModelT("Mailbox"))))>>
      [] cls = "OptionalBoxList" ->
           <<Required(<<"box">>, OptionalT(ListT(ModelT("Mailbox"))))>>
      [] cls = "A" -> <<Required(<<"shared">>, StrT), Required(<<"a">>, StrT)>>
      [] cls = "B" -> <<Required(<<"shared">>, IntT), Required(<<"b">>, StrT)>>
      [] cls = "Holder" -> <<Required(<<"x">>, UnionT(<<ModelT("A"), ModelT("B")>>))>>
      [] cls = "EnumFoo" -> <<Required(<<"v">>, EnumT("Color"))>>
      [] cls = "Form" -> <<Required(<<"form">>, EnumT("HeaderFieldForm"))>>
      [] cls = "SumFoo" -> <<CustomMarshal(<<"v">>, IntT, "sum")>>
      [] cls = "Email" ->
           <<Required(<<"id">>, StrT),
             CustomMarshal(<<"header", "fields">>, ListT(ModelT("QueriedHeaderField")),
                           "headers")>>
      [] cls \in {"HeaderFieldQuery", "QueriedHeaderField"} ->
           <<Required(<<"name">>, StrT),
             AttrField(<<"form">>, OptionalT(EnumT("HeaderFieldForm")), TRUE,
                       EnumMember("HeaderFieldForm", "raw"), FALSE),
             AttrField(<<"all">>, BoolT, TRUE, PyBool("False"), FALSE),
             AttrField(<<"original">>, StrT, TRUE, PyNone, FALSE)>>
           \o (IF cls = "QueriedHeaderField" THEN <<Required(<<"value">>, StrT)>>
               ELSE <<>>)
      [] cls = "Condition" -> <<Required(<<"in", "mailbox">>, StrT)>>
      [] cls = "Operator" -> <<Required(<<"operator">>, StrT)>>
      [] cls = "FilterHolder" ->
           <<Required(<<"x">>, UnionT(<<ModelT("Condition"), ModelT("Operator")>>))>>

\* make_marshmallow_field: a load-only CustomUnmarshalField for an
\* attribute with a custom marshal, else the field of the annotation;
\* required unless the attribute has a default, under the camelCase key.
make_marshmallow_field(attr_field) ==
    [name |-> attr_field.name,
     data_key |-> to_camel_case(attr_field.name),
     required |-> ~attr_field.has_default,
     field |-> IF attr_field.marshal # ""
               THEN [MField("CustomUnmarshalField", FALSE, FALSE, "", <<>>, <<>>)
                       EXCEPT !.unmarshal_func = attr_field.marshal,
                              !.load_only = TRUE]
               ELSE FieldFromAnnotation(attr_field.type)]

\* marshallable: cls.__marshmallow_schemas__['server' if use_server_fields
\* else 'client'], as the sequence of its declared fields.
SchemaFields(cls, use_server_fields) ==
    LET declared == SelectSeq(get_fields(cls),
                              LAMBDA f : use_server_fields \/ ~f.server_set)
    IN  [j \in 1..Len(declared) |-> make_marshmallow_field(declared[j])]

\* marshmallow.missing
Missing == PyVal("missing", "", <<>>)
Raised(raises) == PyVal("raise", raises, <<>>)

\* attr.fields_dict(cls)[name]
AttrOf(cls, name) ==
    LET fields == get_fields(cls)
    IN  fields[CHOOSE j \in 1..Len(fields) : fields[j].name = name]

\* A message of a ValidationError: the path of keys it is stored under in
\* the errors of the load, the template of the text, and what the template
\* is formatted with: the input for {input}, the choices for {choices}
\* ("" for a template without the placeholder).
Msg(text, input) == [path |-> <<>>, text |-> text, input |-> input, choices |-> ""]

\* error_store.store_error(messages, key)
At(key, messages) ==
    [j \in 1..Len(messages) |-> [messages[j] EXCEPT !.path = <<key>> \o @]]

\* The result of a load, a construction or a dump: ok with the value, or
\* the exception raised (exc) with its messages.
Result(raises, value, messages) == [exc |-> raises, value |-> value, messages |-> messages]

Ok(value) == Result("", value, <<>>)
Invalid(messages) == Result("ValidationError", PyNone, messages)
TypeError == Result("TypeError", PyNone, <<Msg("__init__", "")>>)

\* attrclass(**kwargs), keyword-only: an argument that is no attribute
\* with init=True, or a missing attribute without default, is a TypeError;
\* the instance holds the attributes that were passed.
Construct(cls, kwargs) ==
    LET fields == get_fields(cls)
        init_names == {fields[j].name : j \in {k \in 1..Len(fields) : ~fields[k].server_set}}
        needed == {fields[j].name :
                     j \in {k \in 1..Len(fields) :
                               ~fields[k].server_set /\ ~fields[k].has_default}}
        given == {kwargs[j][1] : j \in 1..Len(kwargs)}
    IN  IF given \subseteq init_names /\ needed \subseteq given
        THEN Ok(Instance(cls, kwargs))
        ELSE TypeError

\* cls.Properties(**kwargs): cls.__new__(cls), then setattr for each.
Properties(cls, kwargs) == Instance(cls, kwargs)

\* setattr(instance, name, value)
SetAttr(instance, name, value) == Instance(instance.a, DictSet(instance.l, name, value))

(***************************************************************************)
(* Loading.  A field deserializes one value; a schema loads a dict and     *)
(* hands the loaded attributes to make_object.  A ValidationError is       *)
(* collected per field, any other exception leaves the load at once.       *)
(***************************************************************************)
AnyRaises(results, raises) == \E j \in 1..Len(results) : results[j].exc = raises

RECURSIVE Flatten(_)
Flatten(seqs) == IF seqs = <<>> THEN <<>> ELSE Head(seqs) \o Flatten(Tail(seqs))

\* The outcome of a sequence of loads whose values make up `value`.
Collect(results, value) ==
    IF AnyRaises(results, "TypeError") THEN TypeError
    ELSE IF AnyRaises(results, "ValidationError")
         THEN Invalid(Flatten([j \in 1..Len(results) |-> results[j].messages]))
         ELSE Ok(value)

\* The schemas of the model types of a PolyField, in declaration order.
UnionSchemas(field) ==
    LET models == SelectSeq(field.union, LAMBDA u : u[1].k = "model")
    IN  [j \in 1..Len(models) |-> models[j][1].n]

\* isinstance(v, pytype) for a value of the wire: bool is a subclass of int.
IsInstance(v, pytype) ==
    CASE pytype.k = "str" -> v.t = "str"
      [] pytype.k = "int" -> v.t \in {"int", "bool"}
      [] pytype.k = "model" -> v.t = "inst" /\ v.a = pytype.n
      [] OTHER -> FALSE

\* The attribute names only schema number j declares (Counter == 1).
unique_keys_for_schema_EveryKey(field, j, use_server_fields) ==
    LET fs == SchemaFields(UnionSchemas(field)[j], use_server_fields)
    IN  {fs[k].name : k \in 1..Len(fs)}

unique_keys_for_schema(field, j, use_server_fields) ==
    LET schemas == UnionSchemas(field)
        keys(i) == LET fs == SchemaFields(schemas[i], use_server_fields)
                   IN  {fs[k].name : k \in 1..Len(fs)}
    IN  {key \in keys(j) : \A i \in 1..Len(schemas) : i # j => key \notin keys(i)}

(***************************************************************************)
(* Header field queries (protocol/models.py).  The string of a query is    *)
(* its parts joined by ':'; str.split(":") gives the parts back.           *)
(***************************************************************************)
MaxParts == 4

\* sep.join(parts)
RECURSIVE Join(_, _)
Join(parts, sep) ==
    IF Len(parts) = 1 THEN Head(parts)
    ELSE Head(parts) \o sep \o Join(Tail(parts), sep)

Parts == {"header", "From", "", "all", "asText", "asMessageIds", "asdf"}

PartLists == UNION {[1..n -> Parts] : n \in 1..MaxParts}

QueryTexts == {Join(parts, ":") : parts \in PartLists}

\* str.split(":")
Split(str) == CHOOSE parts \in PartLists : Join(parts, ":") = str

\* part.startswith('as') and part[2:], for the parts that start with 'as'.
AsParts == << <<"asText", "Text">>, <<"asMessageIds", "MessageIds">>, <<"asdf", "df">> >>

StartsWithAs(part) == \E j \in 1..Len(AsParts) : AsParts[j][1] = part

AfterAs(part) == AsParts[CHOOSE j \in 1..Len(AsParts) : AsParts[j][1] = part][2]

\* ', '.join([str(mem.value) for mem in self.enum])
EnumValues(enum) ==
    Join([j \in 1..Len(EnumMembers(enum)) |-> EnumMembers(enum)[j][2].a], ", ")

\* EnumField.fail of a by_value field: the error template of the field
\* formatted with input and choices (the values); without one, the default
\* message 'Invalid enum value {input}', which takes the input alone.
EnumField_fail(field, input) ==
    IF field.error # ""
    THEN Invalid(<<[Msg(field.error, input) EXCEPT !.choices = EnumValues(field.enum)]>>)
    ELSE Invalid(<<Msg("Invalid enum value {input}", input)>>)

\* EnumField._deserialize of a by_value field: self.enum(value), and fail
\* on its ValueError.
EnumField_deserialize(field, value) ==
    IF EnumByValue(field.enum, value) # <<>> THEN Ok(EnumByValue(field.enum, value)[1])
    ELSE EnumField_fail(field, value.a)

\* HeaderFieldForm.parse = lambda x: field.deserialize(x)
HeaderFieldForm_parse(x) ==
    EnumField_deserialize(FieldFromPythonType(EnumT("HeaderFieldForm")), PyStr(x))

\* The end of HeaderFieldQuery.unmarshal, from `if parts: if parts[0] ==
\* 'all'` on: the part 'all' sets all and stays in the list, and a list
\* that is not empty is refused.
ParseAll(cls, str, name, form, parts, kwargs) ==
    IF form.exc # "" THEN form
    ELSE IF parts # <<>>
    THEN Invalid(<<Msg("These parts of the header query are unrecognized: {parts} ",
                       Join(parts, ":"))>>)
    ELSE Construct(cls, << <<(<<"name">>), PyStr(name)>>,
                           <<(<<"form">>), form.value>>,
                           <<(<<"all">>), PyBool(IF parts # <<>> /\ Head(parts) = "all"
                                                 THEN "True" ELSE "False")>>,
                           <<(<<"original">>), PyStr(str)>> >> \o kwargs)

\* The form of HeaderFieldQuery.unmarshal: a part that starts with 'as' is
\* popped and parsed, else the form is raw.
ParseForm(cls, str, name, parts, kwargs) ==
    IF parts # <<>> /\ StartsWithAs(Head(parts))
    THEN ParseAll(cls, str, name, HeaderFieldForm_parse(AfterAs(Head(parts))),
                  Tail(parts), kwargs)
    ELSE ParseAll(cls, str, name, Ok(EnumMember("HeaderFieldForm", "raw")), parts, kwargs)

\* The parts of HeaderFieldQuery.unmarshal: 'header', then the name.
ParseParts(cls, str, parts, kwargs) ==
    IF Head(parts) # "header" \/ Len(parts) = 1 \/ parts[2] = ""
    THEN Invalid(<<Msg("Not a valid header field query: {str}", str)>>)
    ELSE ParseForm(cls, str, parts[2], Tail(Tail(parts)), kwargs)

\* HeaderFieldQuery.unmarshal(cls, str, **kwargs)
HeaderFieldQuery_unmarshal(cls, str, kwargs) == ParseParts(cls, str, Split(str), kwargs)

\* HeaderFieldQuery.__str__
HeaderFieldQuery_str(self) ==
    LET attr(name) == IF DictHas(self.l, <<name>>) THEN DictGet(self.l, <<name>>)
                      ELSE AttrOf(self.a, <<name>>).default
    IN  IF attr("original").t = "str" /\ attr("original").a # ""
        THEN attr("original").a
        ELSE Join(<<attr("name").a>>
                  \o (IF attr("form").t # "none"
                      THEN <<"as" \o EnumValue(attr("form")).a>> ELSE <<>>)
                  \o (IF attr("all") = PyBool("True") THEN <<"all">> ELSE <<>>), ":")

\* QueriedHeaderField.load_with_value(key, value)
load_with_value(key, value) ==
    HeaderFieldQuery_unmarshal("QueriedHeaderField", key, << <<(<<"value">>), value>> >>)

\* key.startswith("header:"), for a key of the wire.
StartsWithHeader(key) ==
    /\ Len(key.w) = 1
    /\ key.w[1] \in QueryTexts
    /\ Len(Split(key.w[1])) > 1
    /\ Head(Split(key.w[1])) = "header"

(***************************************************************************)
(* The unmarshal helpers of custom_marshal: from the data they return      *)
(* [exc, value, messages, keys], keys being the keys they used.            *)
(***************************************************************************)
Used(result, keys) ==
    [exc |-> result.exc, value |-> result.value, messages |-> result.messages,
     keys |-> keys]

\* The result of unflatten_headers from the items of the "header:" keys
\* and the QueriedHeaderField loaded from each: the first ValidationError,
\* else the list with the keys used.
Unflattened(items, each) ==
    IF \E j \in 1..Len(each) : each[j].exc # ""
    THEN Used(each[CHOOSE j \in 1..Len(each) :
                      each[j].exc # "" /\ \A i \in 1..(j - 1) : each[i].exc = ""], <<>>)
    ELSE Used(Ok(PyList([j \in 1..Len(each) |-> each[j].value])),
              [j \in 1..Len(items) |-> items[j][1]])

LoadEach(items) ==
    Unflattened(items,
                [j \in 1..Len(items) |-> load_with_value(items[j][1].w[1], items[j][2])])

\* unflatten_headers: a QueriedHeaderField of every "header:" key, these
\* keys used; the ValidationError of a key that does not parse leaves it.
unflatten_headers(data_) ==
    LoadEach(SelectSeq(data_, LAMBDA item : StartsWithHeader(item[1])))

\* len(text) of the strings that are summed.
TextLen(text) ==
    CASE text = "red" -> 3
      [] text = "blue" -> 4
      [] text \in {"v", "3", "a"} -> 1

Digits == <<"0", "1", "2", "3", "4", "5", "6", "7", "8", "9">>

\* str(n)
RECURSIVE NumText(_)
NumText(n) == IF n < 10 THEN Digits[n + 1] ELSE NumText(n \div 10) \o Digits[(n % 10) + 1]

RECURSIVE SumLen(_)
SumLen(values) ==
    IF values = <<>> THEN 0
    ELSE (IF Head(values).t = "str" THEN TextLen(Head(values).a) ELSE Len(Head(values).l))
         + SumLen(Tail(values))

\* load of test_custom_marshal_functions: the sum of len(v) over all of the
\* data, every key used; len() of a number, a bool or None is a TypeError.
load(data_) ==
    IF \E j \in 1..Len(data_) : data_[j][2].t \notin {"str", "list", "dict"}
    THEN Used(Result("TypeError", PyNone, <<Msg("object has no len()", "")>>), <<>>)
    ELSE Used(Ok(PyInt(NumText(SumLen([j \in 1..Len(data_) |-> data_[j][2]])))),
              [j \in 1..Len(data_) |-> data_[j][1]])

unmarshal_func(helper, data_) ==
    CASE helper = "headers" -> unflatten_headers(data_)
      [] helper = "sum" -> load(data_)

\* CustomUnmarshalField.deserialize, given the data of the load: the value
\* of the helper, and the data without the keys the helper used.
RemoveKeys_KeepsUsed(data_, keys_used) == data_

RemoveKeys(data_, keys_used) ==
    SelectSeq(data_, LAMBDA item : \A j \in 1..Len(keys_used) : keys_used[j] # item[1])

Consumed(used, data_) ==
    [result |-> Result(used.exc, used.value, used.messages),
     data |-> IF used.exc = "" THEN RemoveKeys(data_, used.keys) ELSE data_]

CustomUnmarshalField_deserialize(field, data_) ==
    Consumed(unmarshal_func(field.unmarshal_func, data_), data_)

RECURSIVE Deserialize(_, _, _)
RECURSIVE Load(_, _, _)

\* marshmallow's Field.deserialize: None is accepted with allow_none alone,
\* then each field class converts the value.
Deserialize(field, value, use_server_fields) ==
    IF value.t = "none"
    THEN IF field.allow_none THEN Ok(PyNone)
         ELSE Invalid(<<Msg("Field may not be null.", "")>>)
    ELSE CASE field.fc = "String" ->
                IF value.t = "str" THEN Ok(value)
                ELSE Invalid(<<Msg("Not a valid string.", "")>>)
           [] field.fc = "Integer" ->
                IF value.t = "int" THEN Ok(value)
                ELSE IF value.t = "str" /\ value.a \in NumericTexts THEN Ok(PyInt(value.a))
                ELSE Invalid(<<Msg("Not a valid integer.", "")>>)
           [] field.fc = "EnumField" -> EnumField_deserialize(field, value)
           [] field.fc = "List" ->
                IF value.t # "list" THEN Invalid(<<Msg("Not a valid list.", "")>>)
                ELSE LET each == [j \in 1..Len(value.l) |->
                                     Deserialize(field.item[1], value.l[j], use_server_fields)]
                     IN  Collect(each, PyList([j \in 1..Len(each) |-> each[j].value]))
           [] field.fc = "CustomNested" ->
                IF ~field.many THEN Load(field.nested, value, use_server_fields)
                ELSE IF value.t # "list" THEN Invalid(<<Msg("Invalid type.", "")>>)
                ELSE LET each == [j \in 1..Len(value.l) |->
                                     Load(field.nested, value.l[j], use_server_fields)]
                     IN  Collect(each, PyList([j \in 1..Len(each) |-> each[j].value]))
           [] field.fc = "PolyField" ->
                \* PolyField._deserialize: a value that is an instance of
                \* one of the types goes to that type's field; a dict goes
                \* to the first schema one of whose unique keys it holds.
                LET typed == {j \in 1..Len(field.union) : IsInstance(value, field.union[j][1])}
                    first == CHOOSE j \in typed : \A i \in typed : j <= i
                    schemas == UnionSchemas(field)
                    holds(j) == \E key \in unique_keys_for_schema(field, j, use_server_fields) :
                                   DictHas(value.l, NameKey(key))
                    found == {j \in 1..Len(schemas) : value.t = "dict" /\ holds(j)}
                    schema == CHOOSE j \in found : \A i \in found : j <= i
                IN  IF typed # {}
                    THEN Deserialize(field.union[first][2], value, use_server_fields)
                    ELSE IF found # {}
                         THEN Load(schemas[schema], value, use_server_fields)
                         ELSE Invalid(<<Msg("Not one of the possible valid types", "")>>)

\* _call_and_store of a field: the value is set, or the messages of the
\* ValidationError are stored under the data key; any other exception
\* leaves the load.
Stored(at, f, result, data_) ==
    [data |-> data_,
     loaded |-> IF result.exc = "" /\ result.value.t # "missing"
                THEN Append(at.loaded, <<f.name, result.value>>)
                ELSE at.loaded,
     errors |-> IF result.exc = "ValidationError"
                THEN at.errors \o At(f.data_key, result.messages)
                ELSE at.errors,
     exc |-> IF result.exc \notin {"", "ValidationError"} THEN result.exc ELSE "",
     raised |-> result.messages]

StoredCustom(at, f, custom) == Stored(at, f, custom.result, custom.data)

\* The fields of a load, in declaration order, from the j-th on:
\* [data, loaded, errors, exc].  A CustomUnmarshalField is always called and
\* takes the keys it used out of data; another field is looked up in data
\* under its data key, deserialized when it is there and reported when it
\* is required and missing.
RECURSIVE LoadFields(_, _, _, _)
LoadFields(fs, j, at, use_server_fields) ==
    IF j > Len(fs) \/ at.exc # "" THEN at
    ELSE LoadFields(
             fs, j + 1,
             IF fs[j].field.fc = "CustomUnmarshalField"
             THEN StoredCustom(at, fs[j],
                               CustomUnmarshalField_deserialize(fs[j].field, at.data))
             ELSE IF DictHas(at.data, fs[j].data_key)
             THEN Stored(at, fs[j],
                         Deserialize(fs[j].field, DictGet(at.data, fs[j].data_key),
                                     use_server_fields),
                         at.data)
             ELSE Stored(at, fs[j],
                         IF fs[j].required
                         THEN Invalid(<<Msg("Missing data for required field.", "")>>)
                         ELSE Ok(Missing),
                         at.data),
             use_server_fields)

NoFields(value) ==
    [data |-> value.l, loaded |-> <<>>, errors |-> <<>>, exc |-> "", raised |-> <<>>]

\* The keys left in data that are no data key of a declared field.
UnknownKeys(fs, data_) ==
    SelectSeq([j \in 1..Len(data_) |-> data_[j][1]],
              LAMBDA key : \A j \in 1..Len(fs) : fs[j].data_key # key)

\* The end of a load: the exception that left it, the ValidationError of
\* the errors stored, or the post_load make_object, attrclass(**data).
Loaded(cls, at, errors) ==
    IF at.exc # "" THEN Result(at.exc, PyNone, at.raised)
    ELSE IF errors # <<>> THEN Invalid(errors)
         ELSE Construct(cls, at.loaded)

\* Schema.load of the view's schema (unknown = RAISE): the fields, then
\* 'Unknown field.' for every key left in data that is no data key of a
\* declared field.
Unknown_Ignored(fs, at) == at.errors

Unknown(fs, at) ==
    at.errors \o [j \in 1..Len(UnknownKeys(fs, at.data)) |->
                     At(UnknownKeys(fs, at.data)[j], <<Msg("Unknown field.", "")>>)[1]]

LoadWith(cls, fs, at) == Loaded(cls, at, Unknown(fs, at))

LoadSchema(cls, fs, value, use_server_fields) ==
    LoadWith(cls, fs, LoadFields(fs, 1, NoFields(value), use_server_fields))

Load(cls, value, use_server_fields) ==
    IF value.t # "dict" THEN Invalid(<<Msg("Invalid input type.", "")>>)
    ELSE LoadSchema(cls, SchemaFields(cls, use_server_fields), value, use_server_fields)

\* unmarshall_func: from_server is use_server_fields=True, from_client is
\* use_server_fields=False.
unmarshall_func(cls, input, use_server_fields) == Load(cls, input, use_server_fields)

(***************************************************************************)
(* Dumping.  The record being marshalled goes through get_set_attrs, so    *)
(* the schema sees its __dict__ alone; a record nested in it is read by    *)
(* marshmallow with getattr, which finds the default of an attribute that  *)
(* was never assigned.                                                     *)
(***************************************************************************)
AsObject(instance) == PyVal("asobject", instance.a, instance.l)

get_set_attrs(instance) == AsObject(instance)

\* getattr(obj, name, missing)
GetAttr(obj, name) ==
    CASE obj.t = "asobject" ->
           IF DictHas(obj.l, name) THEN DictGet(obj.l, name) ELSE Missing
      [] obj.t = "inst" ->
           IF DictHas(obj.l, name) THEN DictGet(obj.l, name)
           ELSE IF AttrOf(obj.a, name).has_default
                THEN AttrOf(obj.a, name).default ELSE Missing
      [] OTHER -> Missing

AnyRaised(values) == \E j \in 1..Len(values) : values[j].t = "raise"

RECURSIVE Serialize(_, _, _)
RECURSIVE Dump(_, _, _)

\* Field._serialize of each field class; None serializes to None.
Serialize(field, value, use_server_fields) ==
    IF value.t = "none" /\ field.fc # "PolyField" THEN PyNone
    ELSE CASE field.fc \in {"String", "Integer"} -> value
           [] field.fc = "EnumField" -> EnumValue(value)
           [] field.fc = "List" ->
                LET each == [j \in 1..Len(value.l) |->
                                Serialize(field.item[1], value.l[j], use_server_fields)]
                IN  IF AnyRaised(each) THEN Raised("ValidationError") ELSE PyList(each)
           [] field.fc = "CustomNested" ->
                \* CustomNested._serialize: dicts pass as they are,
                \* anything else is dumped by the nested schema.
                IF field.many
                THEN IF Len(value.l) > 0 /\ value.l[1].t = "dict" THEN value
                     ELSE LET each == [j \in 1..Len(value.l) |->
                                          Dump(field.nested, value.l[j], use_server_fields)]
                          IN  IF AnyRaised(each) THEN Raised("ValidationError")
                              ELSE PyList(each)
                ELSE IF value.t = "dict" THEN value
                     ELSE Dump(field.nested, value, use_server_fields)
           [] field.fc = "PolyField" ->
                LET typed == {j \in 1..Len(field.union) : IsInstance(value, field.union[j][1])}
                    first == CHOOSE j \in typed : \A i \in typed : j <= i
                IN  IF typed = {} THEN Raised("ValidationError")
                    ELSE IF field.union[first][1].k = "model"
                         THEN Dump(field.union[first][1].n, value, use_server_fields)
                         ELSE Serialize(field.union[first][2], value, use_server_fields)

\* flatten_headers: data['header:' + item.format_key()] = item.value for
\* every item of the attribute; format_key() is str() of the query.
RECURSIVE FlattenItems(_, _)
FlattenItems(dumped, items) ==
    IF items = <<>> THEN dumped
    ELSE FlattenItems(DictSet(dumped,
                              WireKey(<<"header:" \o HeaderFieldQuery_str(Head(items))>>,
                                      FALSE),
                              DictGet(Head(items).l, <<"value">>)),
                      Tail(items))

flatten_headers(dumped, instance, field) ==
    LET items == GetAttr(instance, field.name)
    IN  IF items.t = "list" THEN PyDict(FlattenItems(dumped, items.l)) ELSE PyDict(dumped)

\* dump of test_custom_marshal_functions:
\* data[getattr(instance, field.name)] = field.name; the key is written as
\* the text of the value.
dump(dumped, instance, field) ==
    IF GetAttr(instance, field.name).t = "missing" THEN Raised("AttributeError")
    ELSE PyDict(DictSet(dumped, WireKey(<<GetAttr(instance, field.name).a>>, FALSE),
                        PyStr(Join(field.name, "_"))))

marshal_func(helper, dumped, instance, field) ==
    CASE helper = "headers" -> flatten_headers(dumped, instance, field)
      [] helper = "sum" -> dump(dumped, instance, field)

\* process_dumped_result: the marshal helper of every attribute that has
\* one, in declaration order, each given the result of the one before.
RECURSIVE process_dumped_result(_, _, _)
process_dumped_result(fields, dumped, original) ==
    IF fields = <<>> \/ dumped.t # "dict" THEN dumped
    ELSE process_dumped_result(
             Tail(fields),
             IF Head(fields).marshal = "" THEN dumped
             ELSE marshal_func(Head(fields).marshal, dumped.l, original, Head(fields)),
             original)

Dumped(cls, obj, has, each) ==
    IF AnyRaised(each) THEN Raised("ValidationError")
    ELSE process_dumped_result(
             get_fields(cls),
             PyDict([j \in 1..Len(has) |-> <<has[j].data_key, each[j]>>]),
             obj)

DumpFields(cls, obj, has, use_server_fields) ==
    Dumped(cls, obj, has,
           [j \in 1..Len(has) |->
               Serialize(has[j].field, GetAttr(obj, has[j].name), use_server_fields)])

\* Schema.dump: each declared field that is not load-only and whose
\* attribute the object has, under its data key, in declaration order; then
\* the post_dump process_dumped_result.
Dump(cls, obj, use_server_fields) ==
    DumpFields(cls, obj,
               SelectSeq(SchemaFields(cls, use_server_fields),
                         LAMBDA f : ~f.field.load_only /\ GetAttr(obj, f.name).t # "missing"),
               use_server_fields)

\* marshall_func: to_client is use_server_fields=True, to_server is
\* use_server_fields=False.
marshall_func(self, use_server_fields) ==
    Dump(self.a, get_set_attrs(self), use_server_fields)

(***************************************************************************)
(* The state machine of a model record: it is constructed or unmarshalled  *)
(* from JSON for a view, then assigned to, marshalled for a view, and      *)
(* unmarshalled again from what it was marshalled to.  A behaviour         *)
(* follows one record.                                                     *)
(***************************************************************************)
MaxList == 2

\* Every dict over some of the keys, in their order, with values of V.
RECURSIVE DictsOver(_, _)
DictsOver(keys, V) ==
    IF keys = <<>> THEN {<<>>}
    ELSE LET rest == DictsOver(Tail(keys), V)
         IN  rest \cup {<< <<Head(keys), v>> >> \o r : v \in V, r \in rest}

ListsOver(V) == UNION {[1..n -> V] : n \in 0..MaxList}

\* The classes whose records are built and marshalled.
RecordClasses == {"Mailbox", "Parent", "Named", "EnumFoo", "Form"}

MailboxInstances ==
    {Instance("Mailbox", <<>>),
     Instance("Mailbox", << <<(<<"role">>), PyStr("foo")>> >>),
     Instance("Mailbox", << <<(<<"total", "emails">>), PyInt("3")>> >>)}

\* The values given to an attribute of the type.
SampleValues(type) ==
    CASE type = StrT -> {PyStr("foo")}
      [] type = IntT -> {PyInt("3")}
      [] type = ListT(ModelT("Mailbox")) -> {PyList(l) : l \in ListsOver(MailboxInstances)}
      [] type.k = "enum" ->
           {EnumMember(type.n, EnumMembers(type.n)[j][1]) : j \in 1..Len(EnumMembers(type.n))}
      [] OTHER -> {}

\* The keyword arguments given to a constructor of cls.
RECURSIVE KwargsOver(_)
KwargsOver(fields) ==
    IF fields = <<>> THEN {<<>>}
    ELSE LET rest == KwargsOver(Tail(fields))
         IN  rest \cup {<< <<Head(fields).name, v>> >> \o r :
                           v \in SampleValues(Head(fields).type), r \in rest}

Kwargs(cls) == KwargsOver(get_fields(cls))

\* The JSON given to from_client and from_server.
JsonScalars == {PyNone, PyBool("True"), PyInt("3"), PyStr("a")}

JsonObjects ==
    {PyDict(l) : l \in DictsOver(<<to_camel_case(<<"shared">>), to_camel_case(<<"a">>),
                                   to_camel_case(<<"b">>), to_camel_case(<<"role">>),
                                   to_camel_case(<<"in", "mailbox">>),
                                   NameKey(<<"in", "mailbox">>),
                                   to_camel_case(<<"operator">>)>>,
                                 {PyStr("3")})}

JsonLists == {PyList(l) : l \in ListsOver({PyNone, PyStr("a"), PyDict(<<>>)})}

UnmarshalClasses ==
    {"Mailbox", "OptionalInt", "OptionalItem", "OptionalList", "OptionalBoxes",
     "OptionalBoxList", "Holder", "FilterHolder", "EnumFoo", "Form", "SumFoo",
     "Email"}

\* The values given to an enum field: the values of members, names of
\* members that are no values, other strings and values that are no string.
EnumInputs ==
    {PyStr("red"), PyStr("green"), PyStr("redd"), PyStr("MessageIds"),
     PyStr("message_ids"), PyStr("Raw"), PyStr("raw"), PyInt("1"), PyBool("True"),
     PyNone, PyList(<<>>)}

\* A key of the wire with the text.
TextKey(text) == WireKey(<<text>>, FALSE)

UnmarshalInputs(cls) ==
    LET fields == get_fields(cls)
        keys == [j \in 1..Len(fields) |-> to_camel_case(fields[j].name)]
    IN  CASE cls \in {"EnumFoo", "Form"} ->
               {PyDict(l) : l \in DictsOver(keys \o <<TextKey("bar")>>, EnumInputs)}
          [] cls = "SumFoo" ->
               {PyDict(l) : l \in DictsOver(<<TextKey("x"), TextKey("y"), TextKey("v")>>,
                                            {PyStr("red"), PyStr("blue")})}
          [] cls = "Email" ->
               {PyDict(l) : l \in DictsOver(<<TextKey("id"), TextKey("header:From"),
                                              TextKey("header:From:asText"),
                                              TextKey("header:From:asText:all"),
                                              TextKey("header:From:asdf"),
                                              TextKey("headerFields"), TextKey("bar")>>,
                                            {PyStr("3")})}
          [] OTHER ->
               {PyDict(l) : l \in DictsOver(keys, IF Len(fields) = 1
                                                  THEN JsonScalars \cup JsonObjects
                                                       \cup JsonLists
                                                  ELSE JsonScalars)}

Op(op, cls, use_server_fields, input, source, output, outcome) ==
    [op |-> op, cls |-> cls, use_server_fields |-> use_server_fields,
     input |-> input, source |-> source, output |-> output, outcome |-> outcome]

InitMarshal ==
    /\ IdleExecutor
    /\ IdlePerms
    /\ IdleErrors
    /\ IdleMarshal

\* cls(**kwargs)
New ==
    \E cls \in RecordClasses : \E kwargs \in Kwargs(cls) :
        /\ marshal_op.op = ""
        /\ record' = Construct(cls, kwargs).value
        /\ marshal_op' = Op("new", cls, FALSE, Instance(cls, kwargs), PyNone, PyNone,
                            Construct(cls, kwargs))
        /\ UNCHANGED non_marshal_vars

\* cls.Properties(**kwargs)
NewProperties ==
    \E cls \in RecordClasses : \E kwargs \in Kwargs(cls) :
        /\ marshal_op.op = ""
        /\ record' = Properties(cls, kwargs)
        /\ marshal_op' = Op("Properties", cls, FALSE, Instance(cls, kwargs), PyNone, PyNone,
                            Ok(Properties(cls, kwargs)))
        /\ UNCHANGED non_marshal_vars

\* record.name = value
Assign ==
    /\ record.t = "inst"
    /\ \E j \in 1..Len(get_fields(record.a)) :
          \E value \in SampleValues(get_fields(record.a)[j].type) :
            LET name == get_fields(record.a)[j].name IN
            /\ record' = SetAttr(record, name, value)
            /\ marshal_op' = Op("setattr", record.a, FALSE, value, record, PyNone,
                                Ok(SetAttr(record, name, value)))
    /\ UNCHANGED non_marshal_vars

\* record.to_client() / record.to_server()
Marshal ==
    /\ record.t = "inst"
    /\ \E use_server_fields \in BOOLEAN :
          marshal_op' = Op("marshal", record.a, use_server_fields, PyNone, record,
                           marshall_func(record, use_server_fields), Ok(PyNone))
    /\ UNCHANGED record
    /\ UNCHANGED non_marshal_vars

\* cls.from_client(input) / cls.from_server(input)
Unmarshal ==
    \E cls \in UnmarshalClasses : \E input \in UnmarshalInputs(cls) :
      \E use_server_fields \in BOOLEAN :
        /\ marshal_op.op = ""
        /\ record' = unmarshall_func(cls, input, use_server_fields).value
        /\ marshal_op' = Op("unmarshal", cls, use_server_fields, input, PyNone, PyNone,
                            unmarshall_func(cls, input, use_server_fields))
        /\ UNCHANGED non_marshal_vars

\* HeaderFieldQuery.unmarshal(str); the query is in the outcome.
UnmarshalQuery ==
    \E str \in QueryTexts :
        /\ marshal_op.op = ""
        /\ marshal_op' = Op("HeaderFieldQuery.unmarshal", "HeaderFieldQuery", FALSE,
                            PyStr(str), PyNone, PyNone,
                            HeaderFieldQuery_unmarshal("HeaderFieldQuery", str, <<>>))
        /\ UNCHANGED record
        /\ UNCHANGED non_marshal_vars

\* cls.from_client / cls.from_server of what the record was marshalled to.
UnmarshalMarshalled ==
    /\ marshal_op.op = "marshal"
    /\ marshal_op.output.t = "dict"
    /\ \E use_server_fields \in BOOLEAN :
        /\ record' = unmarshall_func(marshal_op.cls, marshal_op.output,
                                      use_server_fields).value
        /\ marshal_op' = Op("roundtrip", marshal_op.cls, use_server_fields,
                            marshal_op.output, marshal_op.source,
                            [t |-> "view", a |-> IF marshal_op.use_server_fields
                                                 THEN "server" ELSE "client", l |-> <<>>],
                            unmarshall_func(marshal_op.cls, marshal_op.output,
                                            use_server_fields))
    /\ UNCHANGED non_marshal_vars

NextMarshal ==
    \/ New \/ NewProperties \/ Assign \/ Marshal \/ Unmarshal \/ UnmarshalMarshalled
    \/ UnmarshalQuery

SpecMarshal == InitMarshal /\ [][NextMarshal]_vars

(***************************************************************************)
(* Properties.                                                             *)
(***************************************************************************)

\* The request body parsed into method calls.
Parsed == from_json(data).kind = "ok"

\* The args of the i-th call as the request carried them.
OrigArgs(i) == data.calls[i].args

\* Every entry of the request is a list.
ListsOnly == \A i \in 1..Len(data.calls) : data.calls[i].kind = "list"

Registered(i) == data.calls[i].name \in available_methods

\* C1: a batch of n calls ends with exactly n response entries, each named
\* after its method or "error", also when a call names an unknown method,
\* has invalid arguments, an unresolvable reference, or is not implemented.
C1_EveryCallReported ==
    (pc = "done" /\ Parsed /\ ListsOnly /\ raised \in {"", "MethodNotFound"}) =>
        /\ Len(method_responses) = Len(method_calls)
        /\ \A i \in 1..Len(method_responses) :
              method_responses[i].name \in {method_calls[i].name, "error"}

\* C2: the entries of methodResponses are in call order: entry i carries the
\* client_id of call i, and the calls run one after another, so the entries
\* so far are those of the calls before the loop position.
C2_ResponsesInCallOrder ==
    /\ Len(method_responses) = next_call - 1
    /\ Len(method_responses) <= Len(method_calls)
    /\ \A i \in 1..Len(method_responses) :
          /\ method_responses[i].client_id = method_calls[i].client_id
          /\ method_responses[i].client_id = data.calls[i].client_id
    /\ (pc = "done" /\ raised = "" /\ Parsed) =>
          Len(method_responses) = Len(data.calls)

C2_Witness ==
    /\ pc = "done" /\ raised = ""
    /\ Len(method_responses) = 2
    /\ method_responses[1].client_id = "c2"
    /\ method_responses[2].client_id = "c1"

\* C3: a call whose method no module registers is recorded as
\* ["error", {"type": "unknownMethod"}, client_id].
C3_UnregisteredIsUnknownMethod ==
    \A i \in 1..Len(log) :
        ~Registered(i) =>
            /\ log[i].kind = "JMapMethodError"
            /\ log[i].typename = TypeUnknownMethod
            /\ Len(method_responses) >= i
            /\ method_responses[i].name = "error"

(***************************************************************************)
(* Properties of one iteration of the loop.  In a step that runs a call,   *)
(* log grows by one entry; the call is method_calls[next_call] before the  *)
(* step and the table before the step is the one the call resolves its     *)
(* references against.                                                     *)
(***************************************************************************)
RunsCall == Len(log') = Len(log) + 1

ThisCall == method_calls[next_call]

ThisOutcome == log'[Len(log')]

\* Position j holds the first key of items that starts with '#'.
FirstHashKey(items, j) ==
    /\ j \in 1..Len(items)
    /\ items[j][1].h > 0
    /\ \A k \in 1..(j - 1) : items[k][1].h = 0

RecordedNames(client_id) ==
    {method_responses[k].name :
        k \in {n \in 1..Len(method_responses) :
                  method_responses[n].client_id = client_id}}

SeqRange(q) == {q[k] : k \in 1..Len(q)}

FailsValidation(args) == ~args.isdict \/ ValidationErrors(args.items) # <<>>

\* C7: for a handler whose argument type is not Any, input that fails
\* validation never reaches the handler and surfaces as invalidArguments
\* with the validation message; the handler only ever gets a validated
\* record.
C7_HandlerOnlyGetsValidatedArgs ==
    \A i \in 1..Len(log) :
        (log[i].executed /\ method_calls[i].name \notin RawMethods) =>
            /\ log[i].handled => log[i].validated
            /\ FailsValidation(log[i].args) =>
                  /\ ~log[i].handled
                  /\ log[i].kind = "JMapMethodError"
                  /\ log[i].typename = TypeInvalidArguments
                  /\ log[i].description # <<>>

\* The request body is a scalar, an object without methodCalls, or has an
\* entry that is no sequence of three members.
OtherShape(d) ==
    \/ d.kind = "scalar"
    \/ d.kind = "dict" /\ ~d.has_calls
    \/ \E i \in 1..Len(d.calls) : d.calls[i].kind = "int" \/ d.calls[i].len # 3

\* C8: from_json rejects every body of another shape than the two accepted
\* ones with JMapNotRequest, and no call of a rejected request is executed.
C8_OtherShapesAreNotRequest ==
    (pc # "parse" /\ OtherShape(data)) =>
        /\ pc = "done"
        /\ raised = "JMapNotRequest"
        /\ log = <<>>

\* C10: a batch that ends with the request-level error notRequest has had
\* no handler invoked for any of its calls.
C10_NotRequestBeforeAnyCallRuns ==
    raised = "JMapNotRequest" => \A i \in 1..Len(log) : ~log[i].handled

(***************************************************************************)
(* Properties of an Executor across batches (SpecBatches).                 *)
(***************************************************************************)

\* The client ids of the calls of this batch before call i.
EarlierClientIds(i) == {data.calls[k].client_id : k \in 1..(i - 1)}

\* The execute loop of this batch is running or has ended.
InBatch == pc \in {"execute", "done"} /\ Parsed

\* C11: every batch starts with an empty response table: while a batch
\* runs the table holds exactly the responses of this batch's calls, a
\* back-reference to a client id that only an earlier batch used fails as
\* if the id had never been seen, and the method table stays as constructed.
C11_NoStateAcrossBatches ==
    /\ self_available_methods = available_methods
    /\ InBatch =>
          /\ DOMAIN responses_by_client_id =
                {method_responses[k].client_id : k \in 1..Len(method_responses)}
          /\ \A c \in DOMAIN responses_by_client_id :
                SeqRange(DictKeys(responses_by_client_id[c])) = RecordedNames(c)
    /\ \A i \in 1..Len(log) :
          \A j \in 1..Len(OrigArgs(i).items) :
             LET ref == OrigArgs(i).items[j][2] IN
             (/\ Registered(i)
              /\ FirstHashKey(OrigArgs(i).items, j)
              /\ ref.k = "ref"
              /\ ref.result_of \notin EarlierClientIds(i)) =>
                /\ log[i].kind = "JMapMethodError"
                /\ log[i].typename = TypeInvalidResultReference
                /\ log[i].description =
                      <<"Not found a previous method call with id", ref.result_of>>

\* The second batch refers to the Mailbox/get response that the first batch
\* recorded under c1, and the reference does not resolve.
C11_Witness ==
    /\ batch = 2
    /\ \E k \in 1..Len(earlier_responses) :
          /\ earlier_responses[k].name = "Mailbox/get"
          /\ earlier_responses[k].client_id = "c1"
    /\ Len(log) = 1
    /\ OrigArgs(1).items = << <<Key(1, "accountId"), GoodRef>> >>
    /\ log[1].typename = TypeInvalidResultReference
    /\ log[1].description = <<"Not found a previous method call with id", "c1">>
    /\ method_responses[1].name = "error"

(***************************************************************************)
(* Properties of the order of the steps of one call (Spec).                *)
(***************************************************************************)

\* The back-references of the call about to run do not all resolve against
\* the table as it is.
ResolutionFails ==
    /\ ThisCall.args.isdict
    /\ ResolveArgs(ThisCall.args.items, DictKeys(ThisCall.args.items), 1,
                   responses_by_client_id).kind # "ok"

\* C12: each call of the batch is run once, in a step that invokes the
\* owning module's execute at most once; the module is not invoked when the
\* method name is unregistered or a back-reference of the call fails.
C12_ModuleInvokedAtMostOnce ==
    [][/\ RunsCall =>
            /\ Len(log) = next_call - 1
            /\ next_call <= Len(method_calls)
            /\ (next_call' = next_call + 1 \/ pc' = "done")
            /\ (ThisCall.name \notin available_methods \/ ResolutionFails) =>
                  (~ThisOutcome.executed /\ ~ThisOutcome.handled)
       /\ ~RunsCall => (log' = log \/ log' = <<>>)]_vars

C12_Witness ==
    /\ pc = "done"
    /\ Len(log) = 2
    /\ log[1].executed /\ log[1].handled
    /\ Registered(2)
    /\ log[2].typename = TypeInvalidResultReference
    /\ ~log[2].executed

\* The first '#' key of call i holds a reference to a client id that no
\* earlier call of the batch has.
FirstReferenceUnresolvable(i) ==
    /\ OrigArgs(i).isdict
    /\ \E j \in 1..Len(OrigArgs(i).items) :
          /\ FirstHashKey(OrigArgs(i).items, j)
          /\ OrigArgs(i).items[j][2].k = "ref"
          /\ OrigArgs(i).items[j][2].result_of \notin EarlierClientIds(i)

\* C13: a call's back-references are resolved before its method name is
\* looked up, so a call with an unregistered method and an unresolvable
\* back-reference is recorded with the error invalidResultReference.
C13_ReferenceErrorBeforeLookup ==
    \A i \in 1..Len(log) :
        (~Registered(i) /\ FirstReferenceUnresolvable(i)) =>
            /\ log[i].kind = "JMapMethodError"
            /\ log[i].typename = TypeInvalidResultReference
            /\ Len(method_responses) >= i
            /\ method_responses[i].name = "error"

(***************************************************************************)
(* Properties of the permission hook (SpecPerms).                          *)
(***************************************************************************)

\* C14: with an auth backend configured, the real handler is invoked only
\* after can_read was asked about the account and about the requested ids
\* and answered True both times; when an answer is False the handler is not
\* invoked and the call ends with the exception "You cannot access ...".
\* With AccountBackend, which denies by default, the handler is never
\* invoked.
C14_HandlerOnlyAfterCanRead ==
    (auth_backend.configured /\ wrapped_result # "") =>
        /\ handler_calls <= 1
        /\ Len(can_read_calls) >= 1
        /\ can_read_calls[1].objecttype = "Account"
        /\ can_read_calls[1].objectid = wrapped_args.account_id
        /\ handler_calls = 1 =>
              /\ wrapped_result = "return"
              /\ Len(can_read_calls) = 2
              /\ can_read_calls[2].objecttype = "Mailbox"
              /\ can_read_calls[2].objectid = wrapped_args.ids
              /\ \A k \in 1..2 : can_read_calls[k].answer
        /\ (\E k \in 1..Len(can_read_calls) : ~can_read_calls[k].answer) =>
              /\ handler_calls = 0
              /\ wrapped_result = "ValueError"
        /\ (handler_calls = 0) = (\E k \in 1..Len(can_read_calls) : ~can_read_calls[k].answer)
        /\ auth_backend = AccountBackend => handler_calls = 0

\* The account may be read and the requested ids may not: the handler is
\* not invoked.
C14_Witness ==
    /\ auth_backend.configured
    /\ wrapped_result = "ValueError"
    /\ handler_calls = 0
    /\ Len(can_read_calls) = 2
    /\ can_read_calls[1].answer
    /\ ~can_read_calls[2].answer

(***************************************************************************)
(* Properties of the error objects (Spec).                                 *)
(***************************************************************************)

\* C15: the error object of every JMapNotRequest, raised by request parsing
\* or by reference decoding, has the type
\* urn:ietf:params:jmap:error:notRequest, the status 400 and a detail that
\* is a string, never null.
C15_RequestErrorHasDetail ==
    raised = "JMapNotRequest" =>
        LET e == RequestErrorToJson(NotRequestTypename, StatusNotRequest, detail) IN
        /\ e.type = TypeNotRequest
        /\ e.status = 400
        /\ ~e.detail_is_null
        /\ e.detail # <<>>

AssignedKeys(instance, use_server_fields) ==
    LET fs == SchemaFields(instance.a, use_server_fields)
    IN  {fs[j].data_key : j \in {k \in 1..Len(fs) : DictHas(instance.l, fs[k].name)}}

EmitsAssigned(output, instance, use_server_fields) ==
    /\ output.t = "dict"
    /\ {output.l[j][1] : j \in 1..Len(output.l)} = AssignedKeys(instance, use_server_fields)

\* C17: marshalling a record (to_client or to_server) emits exactly the
\* fields of the view that were explicitly assigned, by the constructor, by
\* Properties or by a later assignment, so a record with no explicit
\* field gives {}; the same holds of each record in a list field.
C17_PartialSerialization ==
    marshal_op.op = "marshal" =>
        /\ EmitsAssigned(marshal_op.output, marshal_op.source, marshal_op.use_server_fields)
        /\ (marshal_op.cls = "Parent" /\ DictHas(marshal_op.source.l, <<"box">>)) =>
              LET ins == DictGet(marshal_op.source.l, <<"box">>).l
                  outs == DictGet(marshal_op.output.l, to_camel_case(<<"box">>)).l
              IN  \A j \in 1..Len(ins) :
                      EmitsAssigned(outs[j], ins[j], marshal_op.use_server_fields)

\* The attributes of cls declared server_set.
ServerSet(cls) ==
    {get_fields(cls)[j].name : j \in {k \in 1..Len(get_fields(cls)) : get_fields(cls)[k].server_set}}

\* (a) from_client of input that supplies a server_set field fails validation.
ClientCannotSupply ==
    (/\ marshal_op.op = "unmarshal"
     /\ ~marshal_op.use_server_fields
     /\ \E name \in ServerSet(marshal_op.cls) : DictHas(marshal_op.input.l, to_camel_case(name)))
    => marshal_op.outcome.exc = "ValidationError"

\* (b) to_server never emits a server_set field.
ToServerOmits ==
    (marshal_op.op = "marshal" /\ ~marshal_op.use_server_fields)
    => \A name \in ServerSet(marshal_op.cls) : ~DictHas(marshal_op.output.l, to_camel_case(name))

\* (c) from_server of what to_client gave returns a record holding the
\* server_set fields the marshalled record held.
ServerRoundTrip ==
    (/\ marshal_op.op = "roundtrip"
     /\ marshal_op.use_server_fields
     /\ marshal_op.output.a = "server")
    => \A name \in ServerSet(marshal_op.cls) :
          DictHas(marshal_op.source.l, name) =>
              /\ marshal_op.outcome.exc = ""
              /\ record.t = "inst"
              /\ DictHas(record.l, name)
              /\ DictGet(record.l, name) = DictGet(marshal_op.source.l, name)

\* C18: a server_set field is absent from the client view and present in
\* the server view: from_client of input supplying it fails validation,
\* to_server never emits it, and to_client followed by from_server
\* round-trips it.
C18_ServerSetExclusion == ClientCannotSupply /\ ToServerOmits /\ ServerRoundTrip

\* The declared type of the only field of the class being unmarshalled,
\* and the value the input gives for it.
DeclaredType == get_fields(marshal_op.cls)[1].type
Supplied == marshal_op.input.l[1][2]

UnmarshalsOneField ==
    /\ marshal_op.op = "unmarshal"
    /\ Len(get_fields(marshal_op.cls)) = 1
    /\ Len(marshal_op.input.l) = 1

IsListOfOptional(type) ==
    type.k = "List" /\ type.of[1].k = "Union" /\ UnionAllowsNone(type.of[1])

IsOptionalOfList(type) ==
    type.k = "Union" /\ UnionAllowsNone(type) /\ Len(UnionTypes(type)) = 1
    /\ UnionTypes(type)[1].k = "List"

\* Every element is null or a value the item type accepts.
ElementsAccepted(item_type, list) ==
    \A j \in 1..Len(list) :
        list[j].t = "none"
        \/ Deserialize(FieldFromAnnotation(item_type), list[j],
                       marshal_op.use_server_fields).exc = ""

HasNullElement(value) ==
    value.t = "list" /\ \E j \in 1..Len(value.l) : value.l[j].t = "none"

\* List[Optional[T]]: null elements are accepted and load as None, a null
\* list is rejected.
ListOfOptionalDistinguished ==
    (UnmarshalsOneField /\ IsListOfOptional(DeclaredType)) =>
        /\ Supplied.t = "none" => marshal_op.outcome.exc = "ValidationError"
        /\ (HasNullElement(Supplied)
             /\ ElementsAccepted(UnionTypes(DeclaredType.of[1])[1], Supplied.l)) =>
               /\ marshal_op.outcome.exc = ""
               /\ \A j \in 1..Len(Supplied.l) :
                     Supplied.l[j].t = "none" =>
                         DictGet(record.l, get_fields(marshal_op.cls)[1].name).l[j].t = "none"

\* Optional[List[T]]: a null list is accepted and loads as None, a null
\* element is rejected.
OptionalOfListDistinguished ==
    (UnmarshalsOneField /\ IsOptionalOfList(DeclaredType)) =>
        /\ Supplied.t = "none" =>
               /\ marshal_op.outcome.exc = ""
               /\ DictGet(record.l, get_fields(marshal_op.cls)[1].name).t = "none"
        /\ HasNullElement(Supplied) => marshal_op.outcome.exc = "ValidationError"

\* A boolean is rejected where Optional[int] is declared.
BoolIsNoOptionalInt ==
    (UnmarshalsOneField /\ DeclaredType = OptionalT(IntT) /\ Supplied.t = "bool")
    => marshal_op.outcome.exc = "ValidationError"

\* C19: on unmarshal a List[Optional[T]] field accepts null elements and
\* rejects a null list, an Optional[List[T]] field accepts a null list and
\* rejects a null element, and an Optional[int] field rejects a boolean.
C19_OptionalVsListOfOptional ==
    ListOfOptionalDistinguished /\ OptionalOfListDistinguished /\ BoolIsNoOptionalInt

\* The input of Holder.from_client / from_server gives x an object with the key.
SuppliedHas(key) == Supplied.t = "dict" /\ DictHas(Supplied.l, to_camel_case(<<key>>))

SuppliedKeys == {Supplied.l[j][1] : j \in 1..Len(Supplied.l)}

\* The load succeeded and x is an instance of cls.
UnmarshalledAs(cls) ==
    /\ marshal_op.outcome.exc = ""
    /\ DictGet(record.l, <<"x">>).t = "inst"
    /\ DictGet(record.l, <<"x">>).a = cls

\* C20: for the union of A {shared, a} and B {shared, b}, an object with
\* key a unmarshals as A and never as B, an object with key b (and not a)
\* as B and never as A, an object with neither fails with a
\* ValidationError, and so does a value that is no object.
C20_UnionDisambiguation ==
    (UnmarshalsOneField /\ marshal_op.cls = "Holder") =>
        /\ SuppliedHas("a") => ~UnmarshalledAs("B")
        /\ (SuppliedHas("b") /\ ~SuppliedHas("a")) => ~UnmarshalledAs("A")
        /\ (Supplied.t = "dict"
             /\ SuppliedKeys = {to_camel_case(<<"shared">>), to_camel_case(<<"a">>)})
           => UnmarshalledAs("A")
        /\ (Supplied.t = "dict"
             /\ SuppliedKeys = {to_camel_case(<<"shared">>), to_camel_case(<<"b">>)})
           => UnmarshalledAs("B")
        /\ (Supplied.t = "dict" /\ ~SuppliedHas("a") /\ ~SuppliedHas("b"))
           => marshal_op.outcome.exc = "ValidationError"
        /\ Supplied.t # "dict" => marshal_op.outcome.exc = "ValidationError"

\* Holder is unmarshalled from {x: {shared, b}} and x is a B.
C20_Witness ==
    /\ UnmarshalsOneField
    /\ marshal_op.cls = "Holder"
    /\ SuppliedHas("shared")
    /\ SuppliedHas("b")
    /\ UnmarshalledAs("B")

\* C30: the union of Condition {in_mailbox} and Operator {operator} is
\* disambiguated on the keys of the wire object: an object carrying the
\* camelCase key inMailbox alone unmarshals as Condition, exactly as an
\* object carrying the single-word key operator alone unmarshals as
\* Operator.
C30_WireKeysDisambiguate ==
    (UnmarshalsOneField /\ marshal_op.cls = "FilterHolder" /\ Supplied.t = "dict") =>
        /\ SuppliedKeys = {to_camel_case(<<"operator">>)} => UnmarshalledAs("Operator")
        /\ SuppliedKeys = {to_camel_case(<<"in", "mailbox">>)} => UnmarshalledAs("Condition")

(***************************************************************************)
(* Properties of enum fields, unknown keys, custom unmarshal helpers and   *)
(* header field queries (SpecMarshal).                                     *)
(***************************************************************************)

\* The classes of one enum-typed attribute, its enum and its key.
EnumTyped == marshal_op.cls \in {"EnumFoo", "Form"}

EnumOf == get_fields(marshal_op.cls)[1].type.n

FirstName == get_fields(marshal_op.cls)[1].name

FirstKey == to_camel_case(FirstName)

\* The members of the enum whose value is the value of the wire.
MembersOfValue(value) ==
    {EnumMember(EnumOf, EnumMembers(EnumOf)[j][1]) :
        j \in {k \in 1..Len(EnumMembers(EnumOf)) :
                  /\ EnumMembers(EnumOf)[k][2].t = value.t
                  /\ EnumMembers(EnumOf)[k][2].a = value.a}}

\* The value of the member, from the definition of the enums.
WireValueOf(member) ==
    CASE member.a = "Color.red" -> PyStr("red")
      [] member.a = "Color.green" -> PyStr("green")
      [] member.a = "HeaderFieldForm.raw" -> PyStr("Raw")
      [] member.a = "HeaderFieldForm.text" -> PyStr("Text")
      [] member.a = "HeaderFieldForm.addresses" -> PyStr("Addresses")
      [] member.a = "HeaderFieldForm.grouped_addresses" -> PyStr("GroupedAddresses")
      [] member.a = "HeaderFieldForm.message_ids" -> PyStr("MessageIds")
      [] member.a = "HeaderFieldForm.date" -> PyStr("Date")
      [] member.a = "HeaderFieldForm.urls" -> PyStr("URLs")

\* The values of the enum, as a message lists them.
ValidValues ==
    IF EnumOf = "Color" THEN "red, green"
    ELSE "Raw, Text, Addresses, GroupedAddresses, MessageIds, Date, URLs"

\* The record that was marshalled had the enum attribute set to a member.
MarshalledMember ==
    /\ EnumTyped
    /\ DictHas(marshal_op.source.l, FirstName)
    /\ DictGet(marshal_op.source.l, FirstName).t = "enum"

\* The input of the unmarshal gives the enum field alone, and no null.
UnmarshalsEnum ==
    /\ marshal_op.op = "unmarshal"
    /\ EnumTyped
    /\ Len(marshal_op.input.l) = 1
    /\ marshal_op.input.l[1][1] = FirstKey
    /\ marshal_op.input.l[1][2].t # "none"

\* The ValidationError of the load has, under the key, a message that
\* lists the valid values.
ListsValidValues ==
    /\ marshal_op.outcome.exc = "ValidationError"
    /\ \E j \in 1..Len(marshal_op.outcome.messages) :
          /\ marshal_op.outcome.messages[j].path = <<FirstKey>>
          /\ marshal_op.outcome.messages[j].choices = ValidValues

\* C21: an enum-typed field marshals to the value of its member;
\* unmarshalling that value gives the same member back; and unmarshalling a
\* value that is the value of no member (a wrong string, or no string)
\* fails with a ValidationError whose message lists all valid values.
C21_EnumRoundTrip ==
    /\ (marshal_op.op = "marshal" /\ MarshalledMember) =>
          /\ marshal_op.output.t = "dict"
          /\ DictGet(marshal_op.output.l, FirstKey)
               = WireValueOf(DictGet(marshal_op.source.l, FirstName))
    /\ (marshal_op.op = "roundtrip" /\ MarshalledMember) =>
          /\ marshal_op.outcome.exc = ""
          /\ DictGet(record.l, FirstName) = DictGet(marshal_op.source.l, FirstName)
    /\ (UnmarshalsEnum /\ MembersOfValue(Supplied) # {}) =>
          /\ marshal_op.outcome.exc = ""
          /\ DictGet(record.l, FirstName) \in MembersOfValue(Supplied)
          /\ WireValueOf(DictGet(record.l, FirstName)) = Supplied
    /\ (UnmarshalsEnum /\ MembersOfValue(Supplied) = {}) => ListsValidValues

\* The data keys of the schema of the view.
DataKeys ==
    {SchemaFields(marshal_op.cls, marshal_op.use_server_fields)[j].data_key :
        j \in 1..Len(SchemaFields(marshal_op.cls, marshal_op.use_server_fields))}

InputKeys == {marshal_op.input.l[j][1] : j \in 1..Len(marshal_op.input.l)}

\* The attributes of the class that have a custom unmarshal helper.
CustomAttrs ==
    {j \in 1..Len(get_fields(marshal_op.cls)) : get_fields(marshal_op.cls)[j].marshal # ""}

\* What the helper of attribute j returns for the input.
HelperResult(j) == unmarshal_func(get_fields(marshal_op.cls)[j].marshal, marshal_op.input.l)

\* The keys the helpers returned as used.
UsedKeys ==
    UNION {{HelperResult(j).keys[k] : k \in 1..Len(HelperResult(j).keys)} : j \in CustomAttrs}

ReportedUnknown(key) ==
    \E j \in 1..Len(marshal_op.outcome.messages) :
        /\ marshal_op.outcome.messages[j].path = <<key>>
        /\ marshal_op.outcome.messages[j].text = "Unknown field."

UnmarshalsObject ==
    /\ marshal_op.op \in {"unmarshal", "roundtrip"}
    /\ marshal_op.input.t = "dict"

\* C22: unmarshal of an object with a key that is no data key of a field of
\* the view and that no custom unmarshal helper used fails with a
\* ValidationError that names the key, and gives no record.
C22_UnknownKeyRejected ==
    UnmarshalsObject =>
        \A key \in InputKeys \ (DataKeys \cup UsedKeys) :
            /\ marshal_op.outcome.exc = "ValidationError"
            /\ ReportedUnknown(key)
            /\ record = PyNone

\* EnumFoo is unmarshalled from {v: "red", bar: ...}: v is a field and is
\* valid, bar is reported.
C22_Witness ==
    /\ marshal_op.op = "unmarshal"
    /\ marshal_op.cls = "EnumFoo"
    /\ InputKeys = {TextKey("v"), TextKey("bar")}
    /\ DictGet(marshal_op.input.l, TextKey("v")) = PyStr("red")
    /\ marshal_op.outcome.exc = "ValidationError"
    /\ ReportedUnknown(TextKey("bar"))
    /\ ~ReportedUnknown(TextKey("v"))
    /\ Len(marshal_op.outcome.messages) = 1
    /\ record = PyNone

\* C23: the helper of a field with a custom unmarshal is given the whole
\* data and returns the value and the keys it used; none of these keys is
\* reported as unknown, the value is the value of the field in the record
\* that is loaded, and when the helper used every key of the input and the
\* class has no other attribute the load gives a record.
C23_HelperConsumesKeys ==
    (UnmarshalsObject /\ CustomAttrs # {}) =>
        \A j \in CustomAttrs :
            HelperResult(j).exc = "" =>
                /\ \A k \in 1..Len(HelperResult(j).keys) :
                      ~ReportedUnknown(HelperResult(j).keys[k])
                /\ marshal_op.outcome.exc = "" =>
                      DictGet(record.l, get_fields(marshal_op.cls)[j].name)
                        = HelperResult(j).value
                /\ (InputKeys \subseteq UsedKeys /\ Len(get_fields(marshal_op.cls)) = 1)
                      => marshal_op.outcome.exc = ""

\* SumFoo is unmarshalled from {x: "red", y: "blue"} and v is 7; Email is
\* unmarshalled from {id, header:From, header:From:asText} and has the two
\* header fields.
C23_Witness ==
    /\ marshal_op.op = "unmarshal"
    /\ \/ /\ marshal_op.cls = "SumFoo"
          /\ marshal_op.input = PyDict(<< <<TextKey("x"), PyStr("red")>>,
                                          <<TextKey("y"), PyStr("blue")>> >>)
          /\ record = Instance("SumFoo", << <<(<<"v">>), PyInt("7")>> >>)
       \/ /\ marshal_op.cls = "Email"
          /\ InputKeys = {TextKey("id"), TextKey("header:From"),
                          TextKey("header:From:asText")}
          /\ marshal_op.outcome.exc = ""
          /\ Len(DictGet(record.l, <<"header", "fields">>).l) = 2

\* The parts of the string given to HeaderFieldQuery.unmarshal.
QueryParts == Split(marshal_op.input.a)

\* The forms 'as<Form>' among the parts, with their members.
FormOf(part) ==
    CASE part = "asText" -> EnumMember("HeaderFieldForm", "text")
      [] part = "asMessageIds" -> EnumMember("HeaderFieldForm", "message_ids")

\* "header:<name>", "header:<name>:as<Form>" or "header:<name>:as<Form>:all".
Documented(parts) ==
    /\ Len(parts) \in 2..4
    /\ parts[1] = "header"
    /\ parts[2] # ""
    /\ Len(parts) >= 3 => parts[3] \in {"asText", "asMessageIds"}
    /\ Len(parts) = 4 => parts[4] = "all"

\* "header:<name>:all", which is none of the three forms and has no part
\* that is unrecognized.
AllWithoutForm(parts) ==
    Len(parts) = 3 /\ parts[1] = "header" /\ parts[2] # "" /\ parts[3] = "all"

Parsed_(name) == DictGet(marshal_op.outcome.value.l, <<name>>)

\* C24: HeaderFieldQuery.unmarshal accepts "header:<name>",
\* "header:<name>:as<Form>" and "header:<name>:as<Form>:all" and gives the
\* name, the form (raw without one) and all, which is true exactly with the
\* last part 'all'; str() of the query is the string it was parsed from;
\* a string that does not start with "header:", has no name, an unknown
\* form or unrecognized parts after it fails with a ValidationError.
C24_HeaderFieldQueryForms ==
    marshal_op.op = "HeaderFieldQuery.unmarshal" =>
        /\ Documented(QueryParts) =>
              /\ marshal_op.outcome.exc = ""
              /\ Parsed_("name") = PyStr(QueryParts[2])
              /\ Parsed_("form") = IF Len(QueryParts) >= 3 THEN FormOf(QueryParts[3])
                                   ELSE EnumMember("HeaderFieldForm", "raw")
              /\ Parsed_("all") = PyBool(IF Len(QueryParts) = 4 THEN "True" ELSE "False")
              /\ HeaderFieldQuery_str(marshal_op.outcome.value) = marshal_op.input.a
        /\ (~Documented(QueryParts) /\ ~AllWithoutForm(QueryParts)) =>
              marshal_op.outcome.exc = "ValidationError"

(***************************************************************************)
(* Properties of back-reference resolution (Spec).                         *)
(***************************************************************************)

\* Every '#' key of the args holds a well-formed reference object.
WellFormedReferences(args) ==
    /\ args.isdict
    /\ \A j \in 1..Len(args.items) :
          args.items[j][1].h > 0 => args.items[j][2].k = "ref"

\* C25: resolving a well-formed back-reference either gives the value or
\* fails with invalidResultReference, whatever the referenced response is
\* (a result record, the raw dict of Core/echo, a recorded error object):
\* a call to a registered method whose references are all well-formed and
\* whose module is not invoked is recorded as invalidResultReference and
\* the batch goes on.
C25_ResolutionFailsOnlyAsInvalidReference ==
    \A i \in 1..Len(log) :
        (Registered(i) /\ WellFormedReferences(OrigArgs(i)) /\ ~log[i].executed) =>
            /\ log[i].kind = "JMapMethodError"
            /\ log[i].typename = TypeInvalidResultReference
            /\ Len(method_responses) >= i
            /\ method_responses[i].name = "error"
            /\ raised = ""

\* The client ids of the calls that ran before the call about to run.
StrictlyEarlierIds == {method_calls[k].client_id : k \in 1..(next_call - 1)}

NoHashKeyHanded(i) ==
    \A j \in 1..Len(log[i].args.items) : log[i].args.items[j][1].h = 0

\* Every key of the original args without '#' has its original value in
\* the args handed to the module.
PlainKeysKept(i) ==
    \A j \in 1..Len(OrigArgs(i).items) :
        LET key == OrigArgs(i).items[j][1] IN
        key.h = 0 =>
            /\ DictHas(log[i].args.items, key)
            /\ DictGet(log[i].args.items, key) = OrigArgs(i).items[j][2]

\* Every '#' key of the original args is gone and its unprefixed key is there.
HashKeysReplaced(i) ==
    \A j \in 1..Len(OrigArgs(i).items) :
        LET key == OrigArgs(i).items[j][1] IN
        key.h > 0 =>
            /\ ~DictHas(log[i].args.items, key)
            /\ DictHas(log[i].args.items, Key(key.h - 1, key.n))

\* C27: the argument map handed to a module's execute holds no key that
\* begins with '#': every '#' key of the original args is replaced by its
\* unprefixed key, and the keys without '#' keep their original values.
C27_HandedArgsAreResolved ==
    \A i \in 1..Len(log) :
        (log[i].executed /\ OrigArgs(i).isdict) =>
            NoHashKeyHanded(i) /\ HashKeysReplaced(i) /\ PlainKeysKept(i)

\* C28: when the back-references of a call do not all resolve and the call
\* is recorded as invalidResultReference, its argument map is as it was
\* received: no '#' key removed, no unprefixed key added or overwritten,
\* also when an earlier reference of the call did resolve.
C28_FailedResolutionLeavesArgs ==
    \A i \in 1..Len(log) :
        (log[i].kind = "JMapMethodError" /\ log[i].typename = TypeInvalidResultReference) =>
            /\ log[i].args = OrigArgs(i)
            /\ method_calls[i].args = OrigArgs(i)

(***************************************************************************)
(* Properties of calls that share a client id (SpecShared).                *)
(***************************************************************************)

\* The positions up to n of the entries recorded under the client id and
\* the response name.
EntriesOf(client_id, name, n) ==
    {k \in 1..n : k <= Len(method_responses)
                   /\ method_responses[k].client_id = client_id
                   /\ method_responses[k].name = name}

Latest(positions) == CHOOSE k \in positions : \A m \in positions : m <= k

\* C29: when calls of a batch share a client id and record the same
\* response name, the response table holds the latest of these responses,
\* a later back-reference to that client id and name resolves against it,
\* and methodResponses has one entry for each call.
C29_LaterResponseReplaces ==
    InBatch =>
        /\ Len(method_responses) = Len(log)
        /\ \A k \in 1..Len(method_responses) :
              LET e == method_responses[k] IN
              /\ e.client_id = data.calls[k].client_id
              /\ e.name \in {data.calls[k].name, "error"}
              /\ DictGet(responses_by_client_id[e.client_id], e.name) =
                    method_responses[Latest(EntriesOf(e.client_id, e.name,
                                                      Len(method_responses)))].data
        /\ \A i \in 1..Len(log) :
              (log[i].executed /\ OrigArgs(i).items = << <<Key(1, "accountId"), GoodRef>> >>) =>
                  DictGet(log[i].args.items, Key(0, "accountId")) =
                      method_responses[Latest(EntriesOf("c1", "Mailbox/get", i - 1))]
                          .data.account_id

\* Two Mailbox/get calls under c1 for different accounts, then a reference
\* to c1 that resolves to the account of the second.
C29_Witness ==
    /\ pc = "done" /\ raised = ""
    /\ Len(method_responses) = 3
    /\ method_responses[1].client_id = "c1" /\ method_responses[2].client_id = "c1"
    /\ method_responses[1].name = "Mailbox/get" /\ method_responses[2].name = "Mailbox/get"
    /\ method_responses[1].data.account_id = Str("acc")
    /\ method_responses[2].data.account_id = Str("other")
    /\ OrigArgs(3).items = << <<Key(1, "accountId"), GoodRef>> >>
    /\ log[3].executed
    /\ DictGet(log[3].args.items, Key(0, "accountId")) = Str("other")
====
